---- MODULE Spec2Model ----
(***************************************************************************)
(* Model of SpyHunt's outbound HTTP layer (src/spyhunt/network):           *)
(*   rate_limiter.py  RateLimiter (token bucket, sync and async acquire)   *)
(*   cache.py         ResponseCache (memory tier + optional disk tier)     *)
(*   client.py        UserAgentRotator, ProxyRotator, HTTPClient,          *)
(*                    AsyncHTTPClient                                      *)
(*                                                                         *)
(* Time.  time.time() is the variable now, counted in clock ticks.  One    *)
(* tick is the time the limiter needs to refill 1/TicksPerToken token,     *)
(* i.e. 1/(requests_per_second * TicksPerToken) second.  Token amounts     *)
(* (tokens, max_tokens, the cost of an acquire) are floats in the source;  *)
(* here they are whole numbers of 1/TicksPerToken token.  In these units   *)
(*     time_passed * requests_per_second          = now - last_update      *)
(*     (tokens - self.tokens) / requests_per_second = the deficit, in ticks*)
(* so the arithmetic of the bucket is exact.  All other durations (ttl,    *)
(* retry_delay) are given in ticks.                                        *)
(***************************************************************************)
EXTENDS Integers, Sequences, FiniteSets, TLC

\* ---------------------------------------------------------------- bounds
MaxTime == 4
TicksPerToken == 1
DefaultWindowSize == 60
MaxAdmissions == 3
MaxCost == 2
SeqMaxTime == 7
SeqMaxAdmissions == 11

CacheMaxTime == 2
MaxSize == 2
MaxSets == 3

DiskMaxTime == 2
MaxDiskSets == 3
MaxProxies == 3
MaxAgents == 3
HeadersMaxTime == 2
ParamsMaxTime == 2
TimeoutMaxTime == 4
RateMaxTime == 4
DeleteMaxTime == 2
LiveMaxTime == 2
MaxTierSets == 3
MaxJobs == 5
MaxConcurrent == 3
MaxLiveAdmissions == 3
MaxDeleteSets == 2
MaxWindow == 2
MaxTimeouts == 2
RetryMaxTime == 6
MaxRetries == 2
MaxUaCalls == 9
ScopeMaxTime == 2
CancelMaxTime == 2
MaxConcurrency == 2
ClientMaxTime == 3
MaxRequests == 2
MaxFailures == 2

Callers == {"t1", "t2", "t3"}
Proxies == {"p1", "p2", "p3"}
Agents == {"ua1", "ua2", "ua3"}
Workers == {"w1", "w2"}
BatchTasks == {"r1", "r2", "r3", "r4"}
ClientProxyLists == {<< >>, <<"p1", "p2">>}
RetryLimits == {1}
RetryDelays == {1, 2}
ClientHeaders == {{}, {<<"User-Agent", "custom">>}}
ParamLists ==
  {<< >>, <<<<1, 1>>>>, <<<<1, 2>>>>, <<<<1, 1>>, <<2, 1>>>>, <<<<2, 1>>, <<1, 1>>>>}
AnyHeaders ==
  {{}, {<<"User-Agent", "custom">>}, {<<"user-agent", "custom">>},
   {<<"Accept", "text/html">>}}
RetryProxyLists == {<< >>, <<"p1">>, <<"p1", "p2">>, <<"p1", "p2", "p3">>}
Methods == {"GET", "POST"}
ClientUrls == {"a"}
Urls == {"a", "b", "c"}
UrlOrder == <<"a", "b", "c">>
Statuses == {200, 404}
CacheStatuses == {200}
DefaultTtls == {2}
TtlArgs == {0, 1}
Rates == {1, 2}
AnyRates == {0, 1, 2}
SeqRates == {1, 2, 5}

\* --------------------------------------------------------------- helpers
Min(a, b) == IF a <= b THEN a ELSE b

Max(a, b) == IF a >= b THEN a ELSE b

\* self._async_semaphore is None (not created yet).
NoSemaphore == 0 - 1

\* A token count n (an int argument of acquire) in model units.
Units(n) == n * TicksPerToken

VARIABLES
  now,                  \* time.time(), in ticks
  \* RateLimiter
  requests_per_second,  \* self.requests_per_second (tokens per second)
  tokens,               \* self.tokens      (units of 1/TicksPerToken token)
  max_tokens,           \* self.max_tokens  (same units)
  last_update,          \* self.last_update
  request_times,        \* self.request_times (deque of admission timestamps)
  rate_den,             \* self.requests_per_second is requests_per_second / rate_den
  window_size,          \* self.window_size, in ticks
  current_rate,         \* what the last get_current_rate() returned
  async_semaphore,      \* self._async_semaphore: NoSemaphore (None) or its free permits
  rl_pc,                \* per caller: "idle" | "sem_wait" | "sleep"
  \* (the next three describe a call that has not returned yet and are reset
  \*  to "sync", 0, 0 when it returns)
  rl_mode,              \* per caller: "sync" (acquire) | "async" (acquire_async)
  rl_cost,              \* per caller: the tokens argument of the pending call
  rl_wake,              \* per caller: earliest time the pending sleep ends
  started,              \* time of the first acquire call (history, for durations)
  \* ResponseCache
  max_size,             \* self.max_size
  default_ttl,          \* self.default_ttl (ticks)
  disk_cache,           \* self.disk_cache
  memory_cache,         \* self._memory_cache: entries in dict (insertion) order
  disk,                 \* the files <key>.cache of cache_dir, by key
  pending,              \* per worker thread: the set or delete it is inside,
                        \* between the locked block and the file operation
  \* UserAgentRotator
  user_agents,          \* self.user_agents
  ua_index,             \* self.current_index
  ua_returned,          \* what the get_next calls so far returned, in order
  gn,                   \* per worker thread: the proxy its get_next() in
                        \* progress has read (NoCall: no call in progress)
  \* ProxyRotator
  proxies,              \* self.proxies: the configured list
  working_proxies,      \* self.working_proxies
  failed_proxies,       \* self.failed_proxies
  current_index,        \* self.current_index
  rot_result,           \* what the get_next() that has just completed returned:
                        \* a proxy, NoProxy (None) or IndexError; NoCall after
                        \* any other step
  marked,               \* proxies given to mark_failed since the last reset_failed
  \* HTTPClient / AsyncHTTPClient
  client_kind,          \* "sync" (HTTPClient) or "async" (AsyncHTTPClient)
  max_retries,          \* self.max_retries
  retry_delay,          \* self.retry_delay, in ticks
  user_agent_rotation,  \* self.user_agent_rotation
  rq_pc,                \* where the request() in progress stands
  rq,                   \* its arguments and locals (NoRequest when none)
  rq_wake,              \* when its backoff sleep ends
  rq_result,            \* how the last request() ended
  transport_calls,      \* session.request calls made so far
  transport_error,      \* what the transport call that has just ended raised
                        \* (NoError after any other step of a request)
  requests,             \* request() calls made so far
  session,              \* self.session / self._session: "none" (None), "open"
                        \* or "closed"
  scope,                \* the with / async with block around the client:
                        \* "outside" (not entered), "inside", "exited" (left
                        \* at the end of the body) or "exited_exc" (left by
                        \* an exception)
  closes,               \* close() calls made so far
  \* AsyncHTTPClient.batch_requests
  concurrency,          \* the concurrency argument
  batch_permits,        \* free permits of its asyncio.Semaphore
  batch_pc,             \* where each limited_request call stands
  scan,                 \* the scan_batch call of a SpyHuntEngine: its locals
                        \* and the futures of its executor
  \* history
  written,              \* the memory tier as written by the set that has just
                        \* completed, before its cleanup (<< >> after any other step)
  stored,               \* urls given to set so far
  sets                  \* number of set calls so far

rlVars == <<requests_per_second, tokens, max_tokens, last_update, request_times,
            rate_den, window_size, current_rate,
            async_semaphore, rl_pc, rl_mode, rl_cost, rl_wake, started>>

cacheVars == <<pending, max_size, default_ttl, disk_cache, memory_cache, disk>>

histVars == <<written, stored, sets>>

rotVars == <<user_agents, ua_index, ua_returned, gn, proxies, working_proxies,
             failed_proxies, current_index,
             rot_result, marked>>

clientVars == <<client_kind, max_retries, retry_delay, user_agent_rotation,
                rq_pc, rq, rq_wake, rq_result, transport_calls, transport_error,
                requests, session, scope, closes>>

batchVars == <<concurrency, batch_permits, batch_pc, scan>>

vars == <<now, rlVars, cacheVars, histVars, rotVars, clientVars, batchVars>>

\* ------------------------------------------------------------ RateLimiter
\* No get_current_rate() has returned.
NoRate == [count |-> 0, window |-> 0]

\* RateLimiter.__init__(requests_per_second = num / den, window_size = w): a
\* full bucket, in whole ticks.
RateLimiterInitFraction(num, den, w) ==
  /\ requests_per_second = num
  /\ rate_den = den
  /\ window_size = w
  /\ current_rate = NoRate
  /\ tokens = Units(num) \div den
  /\ max_tokens = Units(num) \div den
  /\ last_update = now
  /\ request_times = << >>
  /\ async_semaphore = NoSemaphore
  /\ rl_pc = [c \in Callers |-> "idle"]
  /\ rl_mode = [c \in Callers |-> "sync"]
  /\ rl_cost = [c \in Callers |-> 0]
  /\ rl_wake = [c \in Callers |-> 0]
  /\ started = -1

\* RateLimiter.__init__(requests_per_second = r, window_size = w), r whole.
RateLimiterInitWindow(r, w) == RateLimiterInitFraction(r, 1, w)

\* RateLimiter.__init__(requests_per_second = r), window_size left at its
\* default.
RateLimiterInit(r) == RateLimiterInitWindow(r, DefaultWindowSize)

\* _update_tokens: the value it leaves in self.tokens (it also sets
\* last_update to now, which every user below does).
update_tokens ==
  Min(max_tokens, tokens + (now - last_update))

wait_time_short(n, have) == Units(n) - have - 1

\* wait_time = (tokens - self.tokens) / requests_per_second, in ticks.
wait_time(n, have) == Units(n) - have

\* The first locked section of acquire / acquire_async (lines 54-64, 87-97)
\* for caller c asking n tokens.  Leaves c "idle" when it returned at once,
\* "sleep" when it has to wait for refill.
FirstSection(c, n, mode) ==
  LET have == update_tokens IN
  /\ last_update' = now
  /\ started' = IF started < 0 THEN now ELSE started
  /\ IF have >= Units(n)
       THEN /\ tokens' = have - Units(n)
            /\ request_times' = Append(request_times, now)
            /\ rl_pc' = [rl_pc EXCEPT ![c] = "idle"]
            /\ rl_mode' = [rl_mode EXCEPT ![c] = "sync"]
            /\ rl_cost' = [rl_cost EXCEPT ![c] = 0]
            /\ rl_wake' = [rl_wake EXCEPT ![c] = 0]
       ELSE /\ tokens' = have
            /\ request_times' = request_times
            /\ rl_pc' = [rl_pc EXCEPT ![c] = "sleep"]
            /\ rl_mode' = [rl_mode EXCEPT ![c] = mode]
            /\ rl_cost' = [rl_cost EXCEPT ![c] = n]
            /\ rl_wake' = [rl_wake EXCEPT ![c] = now + wait_time(n, have)]

\* The second locked section (lines 70-73, 103-106), entered when the sleep
\* is over: refill, deduct, record.
SecondSection(c) ==
  /\ tokens' = update_tokens - Units(rl_cost[c])
  /\ last_update' = now
  /\ request_times' = Append(request_times, now)
  /\ rl_pc' = [rl_pc EXCEPT ![c] = "idle"]
  /\ rl_mode' = [rl_mode EXCEPT ![c] = "sync"]
  /\ rl_cost' = [rl_cost EXCEPT ![c] = 0]
  /\ rl_wake' = [rl_wake EXCEPT ![c] = 0]
  /\ UNCHANGED started

\* asyncio.Semaphore(int(requests_per_second)), created on first use.
Permits ==
  IF async_semaphore = NoSemaphore THEN requests_per_second \div rate_den
  ELSE async_semaphore

\* acquire(tokens = n), up to its return or its sleep.
acquire(c, n) ==
  /\ rl_pc[c] = "idle"
  /\ FirstSection(c, n, "sync")
  /\ UNCHANGED <<rate_den, window_size, current_rate, requests_per_second, max_tokens, async_semaphore>>

\* acquire_async(tokens = n), up to its return or its first suspension: on
\* the semaphore when no permit is free, else on the sleep (holding a permit).
acquire_async(c, n) ==
  /\ rl_pc[c] = "idle"
  /\ IF Permits > 0
       THEN /\ FirstSection(c, n, "async")
            /\ async_semaphore' = IF rl_pc'[c] = "sleep" THEN Permits - 1 ELSE Permits
       ELSE /\ rl_pc' = [rl_pc EXCEPT ![c] = "sem_wait"]
            /\ rl_mode' = [rl_mode EXCEPT ![c] = "async"]
            /\ rl_cost' = [rl_cost EXCEPT ![c] = n]
            /\ started' = IF started < 0 THEN now ELSE started
            /\ async_semaphore' = Permits
            /\ UNCHANGED <<tokens, last_update, request_times, rl_wake>>
  /\ UNCHANGED <<rate_den, window_size, current_rate, requests_per_second, max_tokens>>

\* A caller suspended on the semaphore gets a permit and runs the first
\* locked section.
SemaphoreGranted(c) ==
  /\ rl_pc[c] = "sem_wait"
  /\ Permits > 0
  /\ FirstSection(c, rl_cost[c], "async")
  /\ async_semaphore' = IF rl_pc'[c] = "sleep" THEN Permits - 1 ELSE Permits
  /\ UNCHANGED <<rate_den, window_size, current_rate, requests_per_second, max_tokens>>

\* time.sleep / asyncio.sleep is over (at or after the requested time): the
\* caller runs the second locked section and returns; an async caller
\* leaves the `async with` and gives its permit back.
SleepDone(c) ==
  /\ rl_pc[c] = "sleep"
  /\ now >= rl_wake[c]
  /\ SecondSection(c)
  /\ async_semaphore' = IF rl_mode[c] = "async" THEN Permits + 1 ELSE async_semaphore
  /\ UNCHANGED <<rate_den, window_size, current_rate, requests_per_second, max_tokens>>

\* The task of caller c is cancelled while acquire_async is suspended: on
\* the semaphore (it holds no permit) or in asyncio.sleep (the CancelledError
\* leaves the `async with`, which gives the permit back).  Neither locked
\* section runs.
cancel_acquire_keeping_permit(c) ==
  /\ rl_pc[c] \in {"sem_wait", "sleep"}
  /\ rl_mode[c] = "async"
  /\ rl_pc' = [rl_pc EXCEPT ![c] = "cancelled"]
  /\ rl_mode' = [rl_mode EXCEPT ![c] = "sync"]
  /\ rl_cost' = [rl_cost EXCEPT ![c] = 0]
  /\ rl_wake' = [rl_wake EXCEPT ![c] = 0]
  /\ async_semaphore' = async_semaphore
  /\ UNCHANGED <<tokens, last_update, request_times, started>>
  /\ UNCHANGED <<rate_den, window_size, current_rate, requests_per_second, max_tokens>>

cancel_acquire(c) ==
  /\ rl_pc[c] \in {"sem_wait", "sleep"}
  /\ rl_mode[c] = "async"
  /\ rl_pc' = [rl_pc EXCEPT ![c] = "cancelled"]
  /\ rl_mode' = [rl_mode EXCEPT ![c] = "sync"]
  /\ rl_cost' = [rl_cost EXCEPT ![c] = 0]
  /\ rl_wake' = [rl_wake EXCEPT ![c] = 0]
  /\ async_semaphore' = IF rl_pc[c] = "sleep" THEN Permits + 1 ELSE async_semaphore
  /\ UNCHANGED <<tokens, last_update, request_times, started>>
  /\ UNCHANGED <<rate_den, window_size, current_rate, requests_per_second, max_tokens>>

\* The while loop of get_current_rate: timestamps are popped from the left
\* of the deque as long as the leftmost one is before the cutoff.
RECURSIVE popleft_old_inclusive(_, _)
popleft_old_inclusive(times, cutoff_time) ==
  IF times # << >> /\ Head(times) <= cutoff_time
    THEN popleft_old_inclusive(Tail(times), cutoff_time)
    ELSE times

RECURSIVE popleft_old(_, _)
popleft_old(times, cutoff_time) ==
  IF times # << >> /\ Head(times) < cutoff_time
    THEN popleft_old(Tail(times), cutoff_time)
    ELSE times

\* get_current_rate(): trims the deque and returns its length over
\* window_size (kept as the pair).  It takes no lock and touches nothing
\* else.
get_current_rate ==
  /\ request_times' = popleft_old(request_times, now - window_size)
  /\ current_rate' = [count |-> Len(request_times'), window |-> window_size]
  /\ UNCHANGED <<tokens, last_update, async_semaphore, rl_pc, rl_mode, rl_cost,
                 rl_wake, started>>
  /\ UNCHANGED <<rate_den, window_size, requests_per_second, max_tokens>>

\* acquire(tokens = n), n > 0, on a limiter built with requests_per_second
\* = 0: the bucket is and stays empty (the refill adds elapsed * 0), and
\* computing wait_time divides by zero; the ZeroDivisionError leaves the
\* `with self.lock` block and acquire.
acquire_zero_rate(c, n) ==
  /\ rl_pc[c] = "idle"
  /\ requests_per_second = 0
  /\ n > tokens
  /\ last_update' = now
  /\ started' = IF started < 0 THEN now ELSE started
  /\ rl_pc' = [rl_pc EXCEPT ![c] = "raised"]
  /\ UNCHANGED <<tokens, request_times, rl_mode, rl_cost, rl_wake>>
  /\ UNCHANGED <<rate_den, window_size, current_rate, requests_per_second, max_tokens, async_semaphore>>

\* The limiter called on its own: nothing else moves.
AcquireZeroRate(c, n) ==
  acquire_zero_rate(c, n)
    /\ UNCHANGED <<now, cacheVars, histVars, rotVars, clientVars, batchVars>>

Acquire(c, n) ==
  acquire(c, n) /\ UNCHANGED <<now, cacheVars, histVars, rotVars, clientVars, batchVars>>

AcquireAsync(c, n) ==
  acquire_async(c, n) /\ UNCHANGED <<now, cacheVars, histVars, rotVars, clientVars, batchVars>>

Granted(c) ==
  SemaphoreGranted(c) /\ UNCHANGED <<now, cacheVars, histVars, rotVars, clientVars, batchVars>>

Woken(c) ==
  SleepDone(c) /\ UNCHANGED <<now, cacheVars, histVars, rotVars, clientVars, batchVars>>

GetCurrentRate ==
  get_current_rate /\ UNCHANGED <<now, cacheVars, histVars, rotVars, clientVars, batchVars>>

CancelAcquire(c) ==
  cancel_acquire(c) /\ UNCHANGED <<now, cacheVars, histVars, rotVars, clientVars, batchVars>>

\* ---------------------------------------------------------- ResponseCache
\* A Response object (HTTPResponse): its status and provenance flag, the url
\* it answers (the requested url and params; NoUrl when it did not come from
\* a transport call), and as history the expiry (time of set + ttl) it was
\* last handed to set with (NeverSet: none).  NoResponse is Python's None.
NeverSet == 0 - 1

NoUrl == <<"-", << >>>>

NoResponse ==
  [status_code |-> 0, from_cache |-> FALSE, set_expiry |-> NeverSet, url |-> NoUrl]

Response(status) ==
  [status_code |-> status, from_cache |-> FALSE, set_expiry |-> NeverSet,
   url |-> NoUrl]

\* HTTPResponse.__bool__ (and None is falsy).
Truthy(r) == r # NoResponse /\ 200 <= r.status_code /\ r.status_code < 400

\* A params dict is the sequence of its (name, value) items in insertion
\* order, names and values being numbers.  sorted(params.items()) orders
\* them by name, then by value.
ItemLess(a, b) == a[1] < b[1] \/ (a[1] = b[1] /\ a[2] < b[2])

RECURSIVE InsertItem(_, _)
InsertItem(x, sorted) ==
  IF sorted = << >> THEN <<x>>
  ELSE IF ItemLess(x, Head(sorted)) THEN <<x>> \o sorted
  ELSE <<Head(sorted)>> \o InsertItem(x, Tail(sorted))

RECURSIVE SortedItems(_)
SortedItems(params) ==
  IF params = << >> THEN << >>
  ELSE InsertItem(Head(params), SortedItems(Tail(params)))

\* _generate_key: the sha256 digest of "method:url[:sorted params]", taken to
\* be collision free.  None and the empty dict give the same key.
generate_key(url, method, params) == <<method, url, SortedItems(params)>>

\* The file of a key: absent, a pickled entry, or bytes that do not unpickle.
NoFile == [kind |-> "none", response |-> NoResponse,
           cached_at |-> 0, expires_at |-> 0, last_accessed |-> 0]

CorruptFile == [NoFile EXCEPT !.kind = "corrupt"]

EntryFile(r, t, ttl) ==
  [kind |-> "entry", response |-> r,
   cached_at |-> t, expires_at |-> t + ttl, last_accessed |-> t]

\* A memory entry, stored with its key.
Entry(k, r, t, ttl) ==
  [key |-> k, response |-> r,
   cached_at |-> t, expires_at |-> t + ttl, last_accessed |-> t]

\* _is_expired at time t.
is_expired(entry, t) == t > entry.expires_at

\* dict operations on the memory tier (a dict keeps insertion order, and
\* assigning to a key that is present keeps its position).
KeysOf(mem) == {mem[i].key : i \in 1..Len(mem)}

EntryOf(mem, k) == mem[CHOOSE i \in 1..Len(mem) : mem[i].key = k]

DictPut(mem, e) ==
  IF e.key \in KeysOf(mem)
    THEN [i \in 1..Len(mem) |-> IF mem[i].key = e.key THEN e ELSE mem[i]]
    ELSE Append(mem, e)

DictDel(mem, k) == SelectSeq(mem, LAMBDA e : e.key # k)

\* sorted(items, key = last_accessed): Python's sort is stable.
InsertByLastAccessedDescending(e, sorted) ==
  LET n == Cardinality({i \in 1..Len(sorted) : sorted[i].last_accessed > e.last_accessed})
  IN  SubSeq(sorted, 1, n) \o <<e>> \o SubSeq(sorted, n + 1, Len(sorted))

InsertByLastAccessed(e, sorted) ==
  LET n == Cardinality({i \in 1..Len(sorted) : sorted[i].last_accessed <= e.last_accessed})
  IN  SubSeq(sorted, 1, n) \o <<e>> \o SubSeq(sorted, n + 1, Len(sorted))

RECURSIVE SortedByLastAccessed(_)
SortedByLastAccessed(items) ==
  IF items = << >> THEN << >>
  ELSE InsertByLastAccessed(items[Len(items)],
                            SortedByLastAccessed(SubSeq(items, 1, Len(items) - 1)))

\* expired_keys of _cleanup_memory_cache at time t.
expired_keys(mem, t) == {mem[i].key : i \in {j \in 1..Len(mem) : t > mem[j].expires_at}}

\* _cleanup_memory_cache at time t: drop the expired entries, then, while
\* over max_size, the entries first in last_accessed order.
cleanup_memory_cache(mem, t) ==
  LET live == SelectSeq(mem, LAMBDA e : e.key \notin expired_keys(mem, t)) IN
  IF Len(live) > max_size
    THEN LET sorted_items == SortedByLastAccessed(live)
             items_to_remove == Len(live) - max_size
             gone == {sorted_items[i].key : i \in 1..items_to_remove}
         IN  SelectSeq(live, LAMBDA e : e.key \notin gone)
    ELSE live

\* _load_from_disk at time t: the response it returns and the files it leaves.
load_from_disk(dsk, k, t) ==
  IF ~disk_cache \/ dsk[k].kind = "none"
    THEN [response |-> NoResponse, disk |-> dsk]
  ELSE IF dsk[k].kind = "corrupt" \/ is_expired(dsk[k], t)
    THEN [response |-> NoResponse, disk |-> [dsk EXCEPT ![k] = NoFile]]
  ELSE [response |-> dsk[k].response, disk |-> dsk]

\* _save_to_disk at time t.  The write can fail (the exception is logged
\* and swallowed): "open_failed" leaves the old file, "dump_failed" leaves
\* the file truncated by open(..., 'wb').
DiskOutcomes == {"ok", "open_failed", "dump_failed"}

save_to_disk(dsk, k, r, ttl, t, outcome) ==
  IF ~disk_cache \/ outcome = "open_failed" THEN dsk
  ELSE IF outcome = "dump_failed" THEN [dsk EXCEPT ![k] = CorruptFile]
  ELSE [dsk EXCEPT ![k] = EntryFile(r, t, ttl)]

\* ResponseCache.get at time t: the response returned (NoResponse: a miss)
\* and the two tiers afterwards.
cache_get(mem, dsk, k, t) ==
  IF k \in KeysOf(mem) /\ ~is_expired(EntryOf(mem, k), t)
    THEN [response |-> EntryOf(mem, k).response,
          memory |-> DictPut(mem, [EntryOf(mem, k) EXCEPT !.last_accessed = t]),
          disk |-> dsk]
    ELSE LET mem1 == DictDel(mem, k)
             loaded == load_from_disk(dsk, k, t)
         IN  IF Truthy(loaded.response)
               THEN [response |-> loaded.response,
                     memory |-> DictPut(mem1, Entry(k, loaded.response, t, default_ttl)),
                     disk |-> loaded.disk]
               ELSE [response |-> NoResponse, memory |-> mem1, disk |-> loaded.disk]

\* The memory tier right after set has written the entry (line 219).
written_by_set(mem, k, r, ttl, t) == DictPut(mem, Entry(k, r, t, ttl))

\* ResponseCache.set at time t (ttl already defaulted): the tiers afterwards.
cache_set(mem, dsk, k, r, ttl, t, outcome) ==
  [memory |-> cleanup_memory_cache(written_by_set(mem, k, r, ttl, t), t),
   disk |-> save_to_disk(dsk, k, r, ttl, t, outcome)]

\* ResponseCache.delete.
cache_delete_memory_only(mem, dsk, k) ==
  [memory |-> DictDel(mem, k), disk |-> dsk]

cache_delete(mem, dsk, k) ==
  [memory |-> DictDel(mem, k),
   disk |-> IF disk_cache THEN [dsk EXCEPT ![k] = NoFile] ELSE dsk]

\* ResponseCache.clear.
cache_clear(mem, dsk) ==
  [memory |-> << >>,
   disk |-> IF disk_cache THEN [k \in DOMAIN dsk |-> NoFile] ELSE dsk]

CacheKeys == {generate_key(u, "GET", << >>) : u \in Urls}

\* The thread is in no cache operation.
NoOperation == [op |-> "none", key |-> NoUrl, response |-> NoResponse, ttl |-> 0]

\* ResponseCache.__init__.
ResponseCacheInit(size, ttl, on_disk) ==
  /\ max_size = size
  /\ default_ttl = ttl
  /\ disk_cache = on_disk
  /\ memory_cache = << >>
  /\ disk = [k \in CacheKeys |-> NoFile]
  /\ pending = [t \in Workers |-> NoOperation]

HistoryInit ==
  /\ written = << >>
  /\ stored = {}
  /\ sets = 0

\* cache.get(url)
Get(url) ==
  LET k == generate_key(url, "GET", << >>)
      g == cache_get(memory_cache, disk, k, now)
  IN  /\ memory_cache' = g.memory
      /\ disk' = g.disk
      /\ written' = << >>
      /\ UNCHANGED <<now, rlVars, rotVars, clientVars, batchVars, pending, max_size, default_ttl, disk_cache, stored, sets>>

\* cache.set(url, response, ttl = ttl) with a new response object of the
\* given status; ttl = 0 stands for ttl = None (use default_ttl).
Set(url, status, ttl_arg, outcome) ==
  LET k == generate_key(url, "GET", << >>)
      ttl == IF ttl_arg = 0 THEN default_ttl ELSE ttl_arg
      r == [Response(status) EXCEPT !.set_expiry = now + ttl]
      c == cache_set(memory_cache, disk, k, r, ttl, now, outcome)
      w == written_by_set(memory_cache, k, r, ttl, now)
  IN  /\ outcome = "ok" \/ disk_cache
      /\ memory_cache' = c.memory
      /\ disk' = c.disk
      /\ stored' = stored \cup {url}
      /\ sets' = sets + 1
      /\ written' = w
      /\ UNCHANGED <<now, rlVars, rotVars, clientVars, batchVars, pending, max_size, default_ttl, disk_cache>>

\* cache.delete(url)
Delete(url) ==
  LET k == generate_key(url, "GET", << >>)
      d == cache_delete(memory_cache, disk, k)
  IN  /\ memory_cache' = d.memory
      /\ disk' = d.disk
      /\ written' = << >>
      /\ UNCHANGED <<now, rlVars, rotVars, clientVars, batchVars, pending, max_size, default_ttl, disk_cache, stored, sets>>

\* cache.set(url, response) called by worker thread t, up to the end of its
\* `with self._lock` block: the entry is in the memory tier, the file is not
\* written yet.
SetBegin(t, url, status) ==
  LET k == generate_key(url, "GET", << >>)
      r == [Response(status) EXCEPT !.set_expiry = now + default_ttl]
      c == cache_set(memory_cache, disk, k, r, default_ttl, now, "ok")
  IN  /\ pending[t] = NoOperation
      /\ memory_cache' = c.memory
      /\ pending' = [pending EXCEPT ![t] = [op |-> "set", key |-> k,
                                             response |-> r, ttl |-> default_ttl]]
      /\ stored' = stored \cup {url}
      /\ sets' = sets + 1
      /\ written' = written_by_set(memory_cache, k, r, default_ttl, now)
      /\ UNCHANGED <<now, rlVars, rotVars, clientVars, batchVars, max_size,
                     default_ttl, disk_cache, disk>>

\* The rest of that set: _save_to_disk, outside the lock.
SetEnd(t) ==
  /\ pending[t].op = "set"
  /\ disk' = save_to_disk(disk, pending[t].key, pending[t].response,
                          pending[t].ttl, now, "ok")
  /\ pending' = [pending EXCEPT ![t] = NoOperation]
  /\ written' = << >>
  /\ UNCHANGED <<now, rlVars, rotVars, clientVars, batchVars, max_size,
                 default_ttl, disk_cache, memory_cache, stored, sets>>

\* cache.delete(url) called by worker thread t, up to the end of its
\* `with self._lock` block: the key is out of the memory tier, the file is
\* still there.
DeleteBegin(t, url) ==
  LET k == generate_key(url, "GET", << >>)
  IN  /\ pending[t] = NoOperation
      /\ memory_cache' = cache_delete(memory_cache, disk, k).memory
      /\ pending' = [pending EXCEPT ![t] = [NoOperation EXCEPT !.op = "delete",
                                                                !.key = k]]
      /\ written' = << >>
      /\ UNCHANGED <<now, rlVars, rotVars, clientVars, batchVars, max_size,
                     default_ttl, disk_cache, disk, stored, sets>>

\* The rest of that delete: the unlink of the file, outside the lock.
DeleteEnd(t) ==
  /\ pending[t].op = "delete"
  /\ disk' = cache_delete(memory_cache, disk, pending[t].key).disk
  /\ pending' = [pending EXCEPT ![t] = NoOperation]
  /\ written' = << >>
  /\ UNCHANGED <<now, rlVars, rotVars, clientVars, batchVars, max_size,
                 default_ttl, disk_cache, memory_cache, stored, sets>>

\* cache.clear()
Clear ==
  LET d == cache_clear(memory_cache, disk)
  IN  /\ memory_cache' = d.memory
      /\ disk' = d.disk
      /\ written' = << >>
      /\ UNCHANGED <<now, rlVars, rotVars, clientVars, batchVars, pending, max_size, default_ttl, disk_cache, stored, sets>>

\* --------------------------------------------------------------- rotators
\* len(UserAgentRotator._get_default_user_agents())
NUserAgents == 8

\* UserAgentRotator._get_default_user_agents()
DefaultUserAgents ==
  <<"ua1", "ua2", "ua3", "ua4", "ua5", "ua6", "ua7", "ua8">>

\* UserAgentRotator.__init__(user_agents = pool): `user_agents or defaults`
\* takes the defaults for None and for an empty list.
UserAgentRotatorInit(pool) ==
  /\ user_agents = (IF pool = << >> THEN DefaultUserAgents ELSE pool)
  /\ ua_index = 0
  /\ ua_returned = << >>

\* UserAgentRotator.get_next: the cursor it leaves (it returns
\* user_agents[ua_index]).
ua_get_next_skipping(i) == (i + 2) % Len(user_agents)

ua_get_next(i) == (i + 1) % Len(user_agents)

\* rotator.get_next()
UaGetNext ==
  /\ ua_returned' = Append(ua_returned, user_agents[ua_index + 1])
  /\ ua_index' = ua_get_next(ua_index)
  /\ UNCHANGED <<gn, user_agents, proxies, working_proxies, failed_proxies,
                 current_index, rot_result, marked>>
  /\ UNCHANGED <<now, rlVars, cacheVars, histVars, clientVars, batchVars>>

\* Values of rot_result besides the proxies.
NoProxy == "None"

IndexError == "IndexError"

ZeroDivisionError == "ZeroDivisionError"

NoCall == "-"

\* ProxyRotator.__init__(proxies = ps)
ProxyRotatorInit(ps) ==
  /\ proxies = ps
  /\ working_proxies = ps
  /\ failed_proxies = << >>
  /\ current_index = 0
  /\ rot_result = NoCall
  /\ marked = {}
  /\ gn = [t \in Workers |-> NoCall]

\* list.remove(x): drops the first occurrence.
ListRemove(list, x) ==
  LET i == CHOOSE j \in 1..Len(list) :
             list[j] = x /\ \A h \in 1..(j - 1) : list[h] # x
  IN  SubSeq(list, 1, i - 1) \o SubSeq(list, i + 1, Len(list))

InList(x, list) == \E i \in 1..Len(list) : list[i] = x

\* ProxyRotator.get_next on working list w with cursor i: the proxy returned
\* (NoProxy for None; IndexError when the cursor is past the end of the list,
\* raised before the cursor is touched) and the cursor afterwards.
proxy_get_next(w, i) ==
  IF w = << >> THEN [proxy |-> NoProxy, index |-> i]
  ELSE IF i >= Len(w) THEN [proxy |-> IndexError, index |-> i]
  ELSE [proxy |-> w[i + 1], index |-> (i + 1) % Len(w)]

\* ProxyRotator.mark_failed(p) on lists w (working) and f (failed).
proxy_mark_failed(w, f, p) ==
  IF InList(p, w)
    THEN [working |-> ListRemove(w, p), failed |-> Append(f, p)]
    ELSE [working |-> w, failed |-> f]

\* ProxyRotator.reset_failed.
proxy_reset_failed_keeping(w, f) == [working |-> w \o f, failed |-> f]

proxy_reset_failed(w, f) == [working |-> w \o f, failed |-> << >>]

\* rotator.get_next()
GetNext ==
  LET g == proxy_get_next(working_proxies, current_index)
  IN  /\ current_index' = g.index
      /\ rot_result' = g.proxy
      /\ UNCHANGED <<gn, user_agents, ua_index, ua_returned, proxies, working_proxies, failed_proxies, marked>>
      /\ UNCHANGED <<now, rlVars, cacheVars, histVars, clientVars, batchVars>>

\* get_next() called by worker thread t, up to the point where another
\* thread can run: it has returned None for an empty working list, raised
\* IndexError for a cursor past the end, or read working_proxies[cursor].
GetNextBegin(t) ==
  LET g == proxy_get_next(working_proxies, current_index)
  IN  /\ gn[t] = NoCall
      /\ IF g.proxy \in {NoProxy, IndexError}
           THEN rot_result' = g.proxy /\ UNCHANGED gn
           ELSE rot_result' = NoCall /\ gn' = [gn EXCEPT ![t] = g.proxy]
      /\ UNCHANGED <<user_agents, ua_index, ua_returned, proxies, working_proxies,
                     failed_proxies, current_index, marked>>
      /\ UNCHANGED <<now, rlVars, cacheVars, histVars, clientVars, batchVars>>

\* The rest of that get_next(): it advances the cursor modulo the length the
\* working list has by now (ZeroDivisionError when it is empty by now) and
\* returns the proxy it read.
GetNextEnd(t) ==
  /\ gn[t] # NoCall
  /\ gn' = [gn EXCEPT ![t] = NoCall]
  /\ IF working_proxies = << >>
       THEN rot_result' = ZeroDivisionError /\ UNCHANGED current_index
       ELSE /\ rot_result' = gn[t]
            /\ current_index' = (current_index + 1) % Len(working_proxies)
  /\ UNCHANGED <<user_agents, ua_index, ua_returned, proxies, working_proxies,
                 failed_proxies, marked>>
  /\ UNCHANGED <<now, rlVars, cacheVars, histVars, clientVars, batchVars>>

\* rotator.mark_failed(p)
MarkFailed(p) ==
  LET m == proxy_mark_failed(working_proxies, failed_proxies, p)
  IN  /\ working_proxies' = m.working
      /\ failed_proxies' = m.failed
      /\ marked' = marked \cup {p}
      /\ rot_result' = NoCall
      /\ UNCHANGED <<gn, user_agents, ua_index, ua_returned, proxies, current_index>>
      /\ UNCHANGED <<now, rlVars, cacheVars, histVars, clientVars, batchVars>>

\* rotator.reset_failed()
ResetFailed ==
  LET r == proxy_reset_failed(working_proxies, failed_proxies)
  IN  /\ working_proxies' = r.working
      /\ failed_proxies' = r.failed
      /\ marked' = {}
      /\ rot_result' = NoCall
      /\ UNCHANGED <<gn, user_agents, ua_index, ua_returned, proxies, current_index>>
      /\ UNCHANGED <<now, rlVars, cacheVars, histVars, clientVars, batchVars>>

\* ------------------------------------------- HTTPClient / AsyncHTTPClient
\* One request() runs at a time, as limiter caller "t1".  Requests carry no
\* proxies= / proxy= argument of their own.
\* No timeout= argument; no TimeoutError yet.
NoTimeout == 0

\* self.timeout = timeout or config.get('network.timeout', 10)
ConfiguredTimeout == 10

NoRequest ==
  [method |-> "-", url |-> "-", use_cache |-> FALSE, proxy |-> NoProxy,
   attempt |-> 0, k |-> 0, calls |-> 0, last_exception |-> "-",
   given |-> {}, headers |-> {}, params |-> << >>,
   timeout_given |-> NoTimeout, timeout |-> NoTimeout,
   timeout_value |-> NoTimeout]

\* How a request() ended: kind "response" (it returned response; hit tells
\* whether through the cache short-circuit) or "error" (it raised error);
\* k and calls are the transport failures scheduled for it and the transport
\* calls it made.
NoResult ==
  [kind |-> "none", response |-> NoResponse, error |-> "-", hit |-> FALSE,
   k |-> 0, calls |-> 0]

Returned(r, is_hit, k, calls) ==
  [kind |-> "response", response |-> r, error |-> "-", hit |-> is_hit,
   k |-> k, calls |-> calls]

Cancelled(k, calls) ==
  [kind |-> "cancelled", response |-> NoResponse, error |-> "CancelledError",
   hit |-> FALSE, k |-> k, calls |-> calls]

Raised(e, k, calls) ==
  [kind |-> "error", response |-> NoResponse, error |-> e, hit |-> FALSE,
   k |-> k, calls |-> calls]

\* No exception.
NoError == "-"

\* HTTPClient.__init__ / AsyncHTTPClient.__init__ (the limiter, the cache and
\* the rotators are initialised by their own constructors).
ClientInit(kind, retries, delay, ua_rotation) ==
  /\ client_kind = kind
  /\ max_retries = retries
  /\ retry_delay = delay
  /\ user_agent_rotation = ua_rotation
  /\ rq_pc = "idle"
  /\ rq = NoRequest
  /\ rq_wake = 0
  /\ rq_result = NoResult
  /\ transport_calls = 0
  /\ transport_error = NoError
  /\ requests = 0
  /\ session = (IF kind = "sync" THEN "open" ELSE "none")
  /\ scope = "outside"
  /\ closes = 0

\* The session the transport call goes through: AsyncHTTPClient._get_session
\* keeps an open session and replaces None or a closed one by a new open
\* one; the Session of HTTPClient opens its pools again when it is used.
get_session(s) == "open"

\* close(): the session afterwards.  HTTPClient closes self.session;
\* AsyncHTTPClient closes self._session if there is one and it is open.
close_none(s) == s

close(s) == IF s = "open" THEN "closed" ELSE s

\* self.proxy_rotator = ProxyRotator(proxy_list) if proxy_list else None
proxy_rotator == proxies # << >>

\* What the transport raises: a timeout, a connection error (SSLError, a
\* failed TLS verification, is a subclass of the library's ConnectionError)
\* or another error of the library's base class (InvalidURL is one).
TransportErrors ==
  {"Timeout", "ConnectionError", "SSLError", "RequestException", "InvalidURL"}

\* The except clause of _make_request that catches e.
is_connection_error(e) == e \in {"ConnectionError", "SSLError"}

\* The typed error _make_request turns e into.
typed_error(e) ==
  IF e = "Timeout" THEN "TimeoutError"
  ELSE IF is_connection_error(e) THEN "ConnectionError"
  ELSE "NetworkError"

\* 2 ** attempt of the backoff.
ConstantBackoff(n) == 1

Pow2(n) == IF n = 0 THEN 1 ELSE IF n = 1 THEN 2 ELSE IF n = 2 THEN 4 ELSE 8

\* The cache short-circuit taken: request() returns the cached response
\* (lines 289-292, 554-557).  g is the result of cache.get(url).
ReturnCachedRotating(g, k) ==
  /\ memory_cache' = g.memory
  /\ disk' = g.disk
  /\ rq_result' = Returned(g.response, TRUE, k, 0)
  /\ requests' = requests + 1
  /\ written' = << >>
  /\ rot_result' = NoCall
  /\ transport_error' = NoError
  /\ session' = session
  /\ ua_index' = ua_get_next(ua_index)
  /\ ua_returned' = Append(ua_returned, user_agents[ua_index + 1])
  /\ UNCHANGED <<gn, user_agents>>
  /\ UNCHANGED <<now, rlVars, pending, max_size, default_ttl, disk_cache, stored, sets>>
  /\ UNCHANGED <<proxies, working_proxies, failed_proxies, current_index, marked>>
  /\ UNCHANGED <<batchVars, scope, closes, client_kind, max_retries, retry_delay,
                 user_agent_rotation,
                 rq_pc, rq, rq_wake, transport_calls>>

ReturnCached(g, k) ==
  /\ memory_cache' = g.memory
  /\ disk' = g.disk
  /\ rq_result' = Returned(g.response, TRUE, k, 0)
  /\ requests' = requests + 1
  /\ written' = << >>
  /\ rot_result' = NoCall
  /\ transport_error' = NoError
  /\ session' = session
  /\ UNCHANGED <<now, rlVars, pending, max_size, default_ttl, disk_cache, stored, sets>>
  /\ UNCHANGED <<gn, user_agents, ua_index, ua_returned, proxies, working_proxies, failed_proxies,
                 current_index, marked>>
  /\ UNCHANGED <<batchVars, scope, closes, client_kind, max_retries, retry_delay,
                 user_agent_rotation,
                 rq_pc, rq, rq_wake, transport_calls>>

\* A headers dict is the set of its (name, value) items.
NoHeaders == {}

\* `name in headers`: dict keys are compared as they are spelled.
HasKey(headers, name) == \E h \in headers : h[1] = name

\* The spellings of the identity header's name that callers use (field
\* names are case-insensitive on the wire).
IsUserAgentHeader(name) == name \in {"User-Agent", "user-agent"}

\* The identity values in the headers handed to the transport.
SentIdentities(headers) == {h[2] : h \in {g \in headers : IsUserAgentHeader(g[1])}}

\* The headers dict after the user agent rotation step of _prepare_request,
\* agent being what get_next returns.
prepare_headers(headers, rotation, agent) ==
  IF rotation /\ ~HasKey(headers, "User-Agent")
    THEN headers \cup {<<"User-Agent", agent>>}
    ELSE headers

\* The timeout the transport call is made with: HTTPClient hands it
\* kwargs.get('timeout', self.timeout); AsyncHTTPClient hands it no timeout,
\* so that the ClientTimeout(total=self.timeout) of the session applies.
request_timeout(kind, timeout) ==
  IF kind = "sync" /\ timeout # NoTimeout THEN timeout ELSE ConfiguredTimeout

\* timeout_value of the TimeoutError that _make_request raises:
\* request_params.get('timeout') in HTTPClient, self.timeout in
\* AsyncHTTPClient.
timeout_value(kind, used) == IF kind = "sync" THEN used ELSE ConfiguredTimeout

\* _prepare_request, after a cache miss that left the tiers as mem and dsk:
\* the identity header, then the proxy of the first attempt.  An IndexError
\* of get_next escapes request().
PrepareRequest(method, url, use_cache, headers, params, timeout, k, mem, dsk) ==
  LET g == proxy_get_next(working_proxies, current_index)
      ua_given == HasKey(headers, "User-Agent")
      started_rq == [method |-> method, url |-> url, use_cache |-> use_cache,
                     proxy |-> IF proxy_rotator THEN g.proxy ELSE NoProxy,
                     attempt |-> 0, k |-> k, calls |-> 0, last_exception |-> "-",
                     given |-> headers,
                     headers |-> prepare_headers(headers, user_agent_rotation,
                                                 user_agents[ua_index + 1]),
                     params |-> params,
                     timeout_given |-> timeout,
                     timeout |-> request_timeout(client_kind, timeout),
                     timeout_value |-> NoTimeout]
  IN  /\ memory_cache' = mem
      /\ disk' = dsk
      /\ requests' = requests + 1
      /\ written' = << >>
      /\ ua_index' = IF user_agent_rotation /\ ~ua_given
                       THEN ua_get_next(ua_index) ELSE ua_index
      /\ ua_returned' = IF user_agent_rotation /\ ~ua_given
                          THEN Append(ua_returned, user_agents[ua_index + 1])
                          ELSE ua_returned
      /\ UNCHANGED <<gn, user_agents>>
      /\ rot_result' = IF proxy_rotator THEN g.proxy ELSE NoCall
      /\ transport_error' = NoError
      /\ session' = session
      /\ current_index' = IF proxy_rotator THEN g.index ELSE current_index
      /\ IF proxy_rotator /\ g.proxy = IndexError
           THEN /\ rq_result' = Raised(IndexError, k, 0)
                /\ UNCHANGED <<rq_pc, rq>>
           ELSE /\ rq_pc' = "acquire"
                /\ rq' = started_rq
                /\ rq_result' = NoResult
      /\ UNCHANGED <<now, rlVars, pending, max_size, default_ttl, disk_cache, stored, sets>>
      /\ UNCHANGED <<proxies, working_proxies, failed_proxies, marked>>
      /\ UNCHANGED <<batchVars, scope, closes, client_kind, max_retries, retry_delay,
                 user_agent_rotation,
                     rq_wake, transport_calls>>

\* request(method, url, use_cache, headers, params, timeout) up to its return
\* through the cache or to the first _make_request; headers, params and
\* timeout are the keyword arguments of those names (NoTimeout: not given).
\* The cache is asked with cache.get(url): method and params take their
\* defaults.  k is the number of failures the transport holds for this
\* request.
RequestWith(method, url, use_cache, headers, params, timeout, k) ==
  LET lookup == use_cache /\ method = "GET"
      g == cache_get(memory_cache, disk, generate_key(url, "GET", << >>), now)
  IN  /\ rq_pc = "idle"
      /\ IF lookup /\ Truthy(g.response)
           THEN ReturnCached(g, k)
           ELSE PrepareRequest(method, url, use_cache, headers, params, timeout, k,
                               IF lookup THEN g.memory ELSE memory_cache,
                               IF lookup THEN g.disk ELSE disk)

\* request(method, url, use_cache, headers) without params= and timeout=.
Request(method, url, use_cache, headers, k) ==
  RequestWith(method, url, use_cache, headers, << >>, NoTimeout, k)

\* _make_request up to the transport call: rate_limiter.acquire() or
\* acquire_async(), which returns at once or sleeps.
MakeRequestNoAcquire ==
  /\ rq_pc = "acquire"
  /\ UNCHANGED rlVars
  /\ rq_pc' = "transport"
  /\ written' = << >>
  /\ rot_result' = NoCall
  /\ transport_error' = NoError
  /\ session' = get_session(session)
  /\ UNCHANGED <<now, cacheVars, stored, sets>>
  /\ UNCHANGED <<gn, user_agents, ua_index, ua_returned, proxies, working_proxies,
                 failed_proxies, current_index, marked>>
  /\ UNCHANGED <<batchVars, scope, closes, client_kind, max_retries, retry_delay,
                 user_agent_rotation,
                 rq, rq_wake, rq_result, transport_calls, requests>>

MakeRequest ==
  /\ rq_pc = "acquire"
  /\ IF client_kind = "sync" THEN acquire("t1", 1) ELSE acquire_async("t1", 1)
  /\ rq_pc' = IF rl_pc'["t1"] = "idle" THEN "transport" ELSE "rl_wait"
  /\ written' = << >>
  /\ rot_result' = NoCall
  /\ transport_error' = NoError
  /\ session' = (IF rq_pc' = "transport" THEN get_session(session) ELSE session)
  /\ UNCHANGED <<now, cacheVars, stored, sets>>
  /\ UNCHANGED <<gn, user_agents, ua_index, ua_returned, proxies, working_proxies, failed_proxies,
                 current_index, marked>>
  /\ UNCHANGED <<batchVars, scope, closes, client_kind, max_retries, retry_delay,
                 user_agent_rotation,
                 rq, rq_wake, rq_result, transport_calls, requests>>

\* The limiter's sleep is over and acquire returns.
RateLimited ==
  /\ rq_pc = "rl_wait"
  /\ SleepDone("t1")
  /\ rq_pc' = "transport"
  /\ written' = << >>
  /\ rot_result' = NoCall
  /\ transport_error' = NoError
  /\ session' = get_session(session)
  /\ UNCHANGED <<now, cacheVars, stored, sets>>
  /\ UNCHANGED <<gn, user_agents, ua_index, ua_returned, proxies, working_proxies, failed_proxies,
                 current_index, marked>>
  /\ UNCHANGED <<batchVars, scope, closes, client_kind, max_retries, retry_delay,
                 user_agent_rotation,
                 rq, rq_wake, rq_result, transport_calls, requests>>

\* The transport call returns a response of the given status: request()
\* stores it (GET, use_cache, truthy) and returns it.
TransportSucceeds(status) ==
  LET key == generate_key(rq.url, "GET", << >>)
      answer == [Response(status) EXCEPT !.url = <<rq.url, rq.params>>]
      store == rq.use_cache /\ rq.method = "GET" /\ Truthy(answer)
      r == IF store THEN [answer EXCEPT !.set_expiry = now + default_ttl]
                    ELSE answer
      c == cache_set(memory_cache, disk, key, r, default_ttl, now, "ok")
  IN  /\ rq_pc = "transport"
      /\ rq.calls >= rq.k
      /\ transport_calls' = transport_calls + 1
      /\ memory_cache' = IF store THEN c.memory ELSE memory_cache
      /\ disk' = IF store THEN c.disk ELSE disk
      /\ written' = IF store
                      THEN written_by_set(memory_cache, key, r, default_ttl, now)
                      ELSE << >>
      /\ rq_result' = Returned(r, FALSE, rq.k, rq.calls + 1)
      /\ rq_pc' = "idle"
      /\ rq' = NoRequest
      /\ rot_result' = NoCall
      /\ transport_error' = NoError
      /\ session' = session
      /\ UNCHANGED <<now, rlVars, pending, max_size, default_ttl, disk_cache, stored, sets>>
      /\ UNCHANGED <<gn, user_agents, ua_index, ua_returned, proxies, working_proxies, failed_proxies,
                     current_index, marked>>
      /\ UNCHANGED <<batchVars, scope, closes, client_kind, max_retries, retry_delay,
                 user_agent_rotation,
                     rq_wake, requests>>

\* The transport call raises e: _make_request marks the proxy failed on a
\* connection error and raises the typed error; request() starts the backoff
\* sleep, or raises when the attempts are used up.
TransportFails(e) ==
  LET mark == is_connection_error(e) /\ rq.proxy # NoProxy /\ proxy_rotator
      m == proxy_mark_failed(working_proxies, failed_proxies, rq.proxy)
  IN  /\ rq_pc = "transport"
      /\ rq.calls < rq.k
      /\ transport_calls' = transport_calls + 1
      /\ working_proxies' = IF mark THEN m.working ELSE working_proxies
      /\ failed_proxies' = IF mark THEN m.failed ELSE failed_proxies
      /\ marked' = IF mark THEN marked \cup {rq.proxy} ELSE marked
      /\ rot_result' = NoCall
      /\ transport_error' = e
      /\ session' = session
      /\ IF rq.attempt < max_retries
           THEN /\ rq_pc' = "backoff"
                /\ rq' = [rq EXCEPT !.calls = @ + 1,
                                     !.last_exception = typed_error(e),
                                     !.timeout_value =
                                        IF e = "Timeout"
                                          THEN timeout_value(client_kind, rq.timeout)
                                          ELSE @]
                /\ rq_wake' = now + retry_delay * Pow2(rq.attempt)
                /\ UNCHANGED rq_result
           ELSE /\ rq_pc' = "idle"
                /\ rq' = NoRequest
                /\ rq_wake' = 0
                /\ rq_result' = Raised(typed_error(e), rq.k, rq.calls + 1)
      /\ written' = << >>
      /\ UNCHANGED <<now, rlVars, cacheVars, stored, sets>>
      /\ UNCHANGED <<gn, user_agents, ua_index, ua_returned, proxies, current_index>>
      /\ UNCHANGED <<batchVars, scope, closes, client_kind, max_retries, retry_delay,
                 user_agent_rotation,
                     requests>>

\* The proxy of the next attempt, old being the proxy of the attempt that
\* failed and got what get_next returned: HTTPClient assigns
\* request_params['proxies'] = get_next(), AsyncHTTPClient assigns
\* request_params['proxy'] only `if proxy_dict:`.
retry_proxy(kind, old, got) ==
  IF kind = "async" /\ got = NoProxy THEN old ELSE got

\* The backoff sleep is over: the next proxy is taken (an IndexError of
\* get_next escapes request()) and the next attempt starts.  The sync client
\* stores whatever get_next returned, the async one keeps the old proxy when
\* get_next returned None.
BackoffDone ==
  LET g == proxy_get_next(working_proxies, current_index)
      next_proxy == IF ~proxy_rotator THEN rq.proxy
                    ELSE retry_proxy(client_kind, rq.proxy, g.proxy)
  IN  /\ rq_pc = "backoff"
      /\ now >= rq_wake
      /\ rot_result' = IF proxy_rotator THEN g.proxy ELSE NoCall
      /\ transport_error' = NoError
      /\ session' = session
      /\ current_index' = IF proxy_rotator THEN g.index ELSE current_index
      /\ IF proxy_rotator /\ g.proxy = IndexError
           THEN /\ rq_pc' = "idle"
                /\ rq' = NoRequest
                /\ rq_result' = Raised(IndexError, rq.k, rq.calls)
           ELSE /\ rq_pc' = "acquire"
                /\ rq' = [rq EXCEPT !.attempt = @ + 1, !.proxy = next_proxy]
                /\ UNCHANGED rq_result
      /\ rq_wake' = 0
      /\ written' = << >>
      /\ UNCHANGED <<now, rlVars, cacheVars, stored, sets>>
      /\ UNCHANGED <<gn, user_agents, ua_index, ua_returned, proxies, working_proxies, failed_proxies, marked>>
      /\ UNCHANGED <<batchVars, scope, closes, client_kind, max_retries, retry_delay,
                 user_agent_rotation,
                     transport_calls, requests>>

\* acquire_async of the request was suspended on the semaphore and gets its
\* permit: it runs the first locked section, and returns or sleeps.
PermitObtained ==
  /\ rq_pc = "rl_wait"
  /\ SemaphoreGranted("t1")
  /\ rq_pc' = IF rl_pc'["t1"] = "idle" THEN "transport" ELSE "rl_wait"
  /\ written' = << >>
  /\ rot_result' = NoCall
  /\ transport_error' = NoError
  /\ session' = (IF rq_pc' = "transport" THEN get_session(session) ELSE session)
  /\ UNCHANGED <<now, cacheVars, stored, sets>>
  /\ UNCHANGED <<gn, user_agents, ua_index, ua_returned, proxies, working_proxies, failed_proxies,
                 current_index, marked>>
  /\ UNCHANGED <<batchVars, scope, closes, client_kind, max_retries, retry_delay,
                 user_agent_rotation,
                 rq, rq_wake, rq_result, transport_calls, requests>>

\* The task running AsyncHTTPClient.request is cancelled at one of its
\* suspension points: inside acquire_async, in the transport call (which was
\* issued) or in the backoff sleep.  No except clause of _make_request or
\* request catches the CancelledError, which ends the request.
CancelRequest ==
  /\ client_kind = "async"
  /\ rq_pc \in {"rl_wait", "transport", "backoff"}
  /\ IF rq_pc = "rl_wait"
       THEN cancel_acquire("t1")
       ELSE UNCHANGED rlVars
  /\ transport_calls' = IF rq_pc = "transport" THEN transport_calls + 1
                                                ELSE transport_calls
  /\ rq_result' = Cancelled(rq.k, IF rq_pc = "transport" THEN rq.calls + 1 ELSE rq.calls)
  /\ rq_pc' = "idle"
  /\ rq' = NoRequest
  /\ rq_wake' = 0
  /\ written' = << >>
  /\ rot_result' = NoCall
  /\ transport_error' = NoError
  /\ session' = session
  /\ UNCHANGED <<now, cacheVars, stored, sets>>
  /\ UNCHANGED <<gn, user_agents, ua_index, ua_returned, proxies, working_proxies, failed_proxies,
                 current_index, marked>>
  /\ UNCHANGED <<batchVars, scope, closes, client_kind, max_retries, retry_delay,
                 user_agent_rotation,
                 requests>>

\* `with HTTPClient(...) as c:` / `async with AsyncHTTPClient(...) as c:` is
\* entered: __enter__ / __aenter__ return the client.
Enter ==
  /\ scope = "outside"
  /\ rq_pc = "idle"
  /\ scope' = "inside"
  /\ UNCHANGED <<client_kind, max_retries, retry_delay, user_agent_rotation,
                 rq_pc, rq, rq_wake, rq_result, transport_calls, transport_error,
                 requests, session, closes>>
  /\ UNCHANGED <<now, rlVars, cacheVars, histVars, rotVars, batchVars>>

\* The block is left, at the end of its body or (exc) by an exception raised
\* in it, an error of a request included: __exit__ / __aexit__ call close()
\* and return None, so an exception goes on to the caller.
Exit(exc) ==
  /\ scope = "inside"
  /\ rq_pc = "idle"
  /\ session' = close(session)
  /\ closes' = closes + 1
  /\ scope' = IF exc THEN "exited_exc" ELSE "exited"
  /\ UNCHANGED <<client_kind, max_retries, retry_delay, user_agent_rotation,
                 rq_pc, rq, rq_wake, rq_result, transport_calls, transport_error,
                 requests>>
  /\ UNCHANGED <<now, rlVars, cacheVars, histVars, rotVars, batchVars>>

\* ------------------------------------------ AsyncHTTPClient.batch_requests
\* No scan_batch call has been made.
NoScan ==
  [pc |-> "idle", jobs |-> 0, max_concurrent |-> 0, submitted |-> {},
   finished |-> {}, yielded |-> {}, remaining_jobs |-> << >>, results |-> << >>]

\* batch_requests(concurrency = n): the semaphore is created and the tasks
\* that will call limited_request have not yet done so.
BatchInit(n) ==
  /\ concurrency = n
  /\ batch_permits = n
  /\ batch_pc = [t \in BatchTasks |-> "pending"]
  /\ scan = NoScan

InFlight == {t \in BatchTasks : batch_pc[t] = "in_flight"}

\* Task t calls limited_request: `async with semaphore` takes a permit, or
\* suspends when none is free; with the permit self.request() is started.
limited_request_ungated(t) ==
  /\ batch_pc[t] = "pending"
  /\ batch_pc' = [batch_pc EXCEPT ![t] = "in_flight"]
  /\ batch_permits' = batch_permits - 1
  /\ UNCHANGED <<scan, concurrency, now, rlVars, cacheVars, histVars, rotVars, clientVars>>

limited_request(t) ==
  /\ batch_pc[t] = "pending"
  /\ IF batch_permits > 0
       THEN /\ batch_pc' = [batch_pc EXCEPT ![t] = "in_flight"]
            /\ batch_permits' = batch_permits - 1
       ELSE /\ batch_pc' = [batch_pc EXCEPT ![t] = "waiting"]
            /\ UNCHANGED batch_permits
  /\ UNCHANGED <<scan, concurrency, now, rlVars, cacheVars, histVars, rotVars, clientVars>>

\* A task suspended on the semaphore gets a permit and starts its request.
PermitGranted(t) ==
  /\ batch_pc[t] = "waiting"
  /\ batch_permits > 0
  /\ batch_pc' = [batch_pc EXCEPT ![t] = "in_flight"]
  /\ batch_permits' = batch_permits - 1
  /\ UNCHANGED <<scan, concurrency, now, rlVars, cacheVars, histVars, rotVars, clientVars>>

\* The self.request() of task t returns or raises; leaving the `async with`
\* gives the permit back either way.
RequestEnds(t, how) ==
  /\ batch_pc[t] = "in_flight"
  /\ batch_pc' = [batch_pc EXCEPT ![t] = how]
  /\ batch_permits' = batch_permits + 1
  /\ UNCHANGED <<scan, concurrency, now, rlVars, cacheVars, histVars, rotVars, clientVars>>

\* ------------------------------------------------------------------ time
\* The clock advances.
Tick ==
  /\ now' = now + 1
  /\ written' = << >>
  /\ UNCHANGED <<rlVars, cacheVars, rotVars, clientVars, batchVars, stored, sets>>

\* ------------------------------------------------------- SpyHuntEngine
\* The jobs of a batch are numbered 1..n in the order of sorted_jobs.
\* future_list of scan_batch: the futures of the first max_concurrent jobs,
\* the only ones as_completed is given.
future_list == 1..Min(scan.jobs, scan.max_concurrent)

\* scan_batch(jobs, max_concurrent = m) with n jobs, up to its
\* as_completed loop: an empty batch returns [] at once, else the first m
\* jobs are submitted to the executor and the others kept in
\* remaining_jobs.
ScanBatch(n, m) ==
  /\ scan.pc = "idle"
  /\ scan' = [pc |-> IF n = 0 THEN "returned" ELSE "loop",
              jobs |-> n, max_concurrent |-> m,
              submitted |-> 1..Min(n, m), finished |-> {}, yielded |-> {},
              remaining_jobs |-> [i \in 1..(n - Min(n, m)) |-> Min(n, m) + i],
              results |-> << >>]
  /\ UNCHANGED <<concurrency, batch_permits, batch_pc>>
  /\ UNCHANGED <<now, rlVars, cacheVars, histVars, rotVars, clientVars>>

\* scan_single of a submitted job j finishes in its executor thread: it
\* returns a ScanResult whether the module succeeded or raised, and the
\* future of j is done.
ScanSingleReturns(j) ==
  /\ j \in scan.submitted \ scan.finished
  /\ scan' = [scan EXCEPT !.finished = @ \cup {j}]
  /\ UNCHANGED <<concurrency, batch_permits, batch_pc>>
  /\ UNCHANGED <<now, rlVars, cacheVars, histVars, rotVars, clientVars>>

\* One round of `for future in as_completed(future_list)`: the result of a
\* finished future of future_list is appended, and the next remaining job,
\* if any, is submitted.
AsCompletedYields(j) ==
  /\ scan.pc = "loop"
  /\ j \in (future_list \cap scan.finished) \ scan.yielded
  /\ scan' = [scan EXCEPT
                !.yielded = @ \cup {j},
                !.results = Append(@, j),
                !.submitted = IF scan.remaining_jobs # << >>
                                THEN @ \cup {Head(scan.remaining_jobs)} ELSE @,
                !.remaining_jobs = IF @ # << >> THEN Tail(@) ELSE @]
  /\ UNCHANGED <<concurrency, batch_permits, batch_pc>>
  /\ UNCHANGED <<now, rlVars, cacheVars, histVars, rotVars, clientVars>>

\* as_completed has yielded every future of future_list: the loop ends and
\* scan_batch returns results.
ScanBatchReturns ==
  /\ scan.pc = "loop"
  /\ scan.yielded = future_list
  /\ scan' = [scan EXCEPT !.pc = "returned"]
  /\ UNCHANGED <<concurrency, batch_permits, batch_pc>>
  /\ UNCHANGED <<now, rlVars, cacheVars, histVars, rotVars, clientVars>>

\* ------------------------------------------- specification: the limiter
\* Several callers share one RateLimiter.  Callers ask for no more than the
\* bucket can ever hold (cost <= max_tokens).
Costs == 1..Min(MaxCost, requests_per_second)

InitRL ==
  /\ now = 0
  /\ \E r \in Rates : RateLimiterInit(r)
  /\ ResponseCacheInit(1, 1, FALSE)
  /\ HistoryInit
  /\ UserAgentRotatorInit(<< >>)
  /\ ProxyRotatorInit(<< >>)
  /\ ClientInit("sync", 0, 1, TRUE)
  /\ BatchInit(1)

NextRL ==
  \/ (now < MaxTime /\ Tick)
  \/ (Len(request_times) < MaxAdmissions
        /\ \E c \in Callers, n \in Costs : Acquire(c, n))
  \/ (Len(request_times) < MaxAdmissions
        /\ \E c \in Callers, n \in Costs : AcquireAsync(c, n))
  \/ \E c \in Callers : Granted(c)
  \/ \E c \in Callers : Woken(c)

SpecRL == InitRL /\ [][NextRL]_vars

\* ------------------------------ specification: a RateLimiter being observed
\* Two threads or tasks acquire one token at a time from a limiter whose
\* window is a few ticks long, while get_current_rate() is called at any
\* moment.
Windows == 1..MaxWindow

InitRate ==
  /\ now = 0
  /\ \E r \in Rates, w \in Windows : RateLimiterInitWindow(r, w)
  /\ ResponseCacheInit(1, 1, FALSE)
  /\ HistoryInit
  /\ UserAgentRotatorInit(<< >>)
  /\ ProxyRotatorInit(<< >>)
  /\ ClientInit("sync", 0, 1, TRUE)
  /\ BatchInit(1)

NextRate ==
  \/ (now < RateMaxTime /\ Tick)
  \/ (Len(request_times) < MaxAdmissions
        /\ \E c \in {"t1", "t2"} : Acquire(c, 1))
  \/ (Len(request_times) < MaxAdmissions
        /\ \E c \in {"t1", "t2"} : AcquireAsync(c, 1))
  \/ \E c \in Callers : Granted(c)
  \/ \E c \in Callers : Woken(c)
  \/ GetCurrentRate

SpecRate == InitRate /\ [][NextRate]_vars

\* ------------------------- specification: a RateLimiter whose callers wait
\* Limiters of whole and of fractional rates, called through acquire and
\* acquire_async with costs that the bucket can hold.  Time advances while a
\* caller sleeps, a sleeper whose time has come is resumed, and the
\* semaphore hands a free permit to a waiter.
LiveRates == {[num |-> 1, den |-> 1], [num |-> 2, den |-> 1], [num |-> 1, den |-> 2]}

LiveCosts == {n \in 0..MaxCost : Units(n) <= max_tokens}

InitLive ==
  /\ now = 0
  /\ \E r \in LiveRates : RateLimiterInitFraction(r.num, r.den, DefaultWindowSize)
  /\ ResponseCacheInit(1, 1, FALSE)
  /\ HistoryInit
  /\ UserAgentRotatorInit(<< >>)
  /\ ProxyRotatorInit(<< >>)
  /\ ClientInit("sync", 0, 1, TRUE)
  /\ BatchInit(1)

Sleeping == \E c \in Callers : rl_pc[c] = "sleep" /\ now < rl_wake[c]

TimePasses == (Sleeping \/ now < LiveMaxTime) /\ Tick

NextLive ==
  \/ TimePasses
  \/ (Len(request_times) < MaxLiveAdmissions
        /\ \E c \in Callers, n \in LiveCosts : Acquire(c, n))
  \/ (Len(request_times) < MaxLiveAdmissions
        /\ \E c \in Callers, n \in LiveCosts : AcquireAsync(c, n))
  \/ \E c \in Callers : Granted(c)
  \/ \E c \in Callers : Woken(c)

SpecLive ==
  /\ InitLive /\ [][NextLive]_vars
  /\ WF_vars(TimePasses)
  /\ \A c \in Callers : WF_vars(Woken(c)) /\ SF_vars(Granted(c))

\* ------------------------- specification: a RateLimiter built with any rate
\* RateLimiter(requests_per_second = r) for r in AnyRates, zero included (the
\* constructor takes every value), called by threads through acquire(1).
InitNew ==
  /\ now = 0
  /\ \E r \in AnyRates : RateLimiterInit(r)
  /\ ResponseCacheInit(1, 1, FALSE)
  /\ HistoryInit
  /\ UserAgentRotatorInit(<< >>)
  /\ ProxyRotatorInit(<< >>)
  /\ ClientInit("sync", 0, 1, TRUE)
  /\ BatchInit(1)

NextNew ==
  \/ (now < MaxTime /\ Tick)
  \/ (/\ requests_per_second > 0
      /\ Len(request_times) < MaxAdmissions
      /\ \E c \in Callers : Acquire(c, 1))
  \/ \E c \in Callers : AcquireZeroRate(c, 1)
  \/ \E c \in Callers : Woken(c)

SpecNew == InitNew /\ [][NextNew]_vars

\* --------------------------- specification: one caller, sequential acquire(1)
InitSeq ==
  /\ now = 0
  /\ \E r \in SeqRates : RateLimiterInit(r)
  /\ ResponseCacheInit(1, 1, FALSE)
  /\ HistoryInit
  /\ UserAgentRotatorInit(<< >>)
  /\ ProxyRotatorInit(<< >>)
  /\ ClientInit("sync", 0, 1, TRUE)
  /\ BatchInit(1)

NextSeq ==
  \/ (now < SeqMaxTime /\ Tick)
  \/ (Len(request_times) < SeqMaxAdmissions /\ Acquire("t1", 1))
  \/ Woken("t1")

SpecSeq == InitSeq /\ [][NextSeq]_vars

\* ----------------------------------------- specification: the cache alone
\* One ResponseCache driven by get/set/delete/clear while time passes; the
\* disk writes succeed.
InitCache ==
  /\ now = 0
  /\ RateLimiterInit(1)
  /\ \E size \in 1..MaxSize, ttl \in DefaultTtls, on_disk \in BOOLEAN :
        ResponseCacheInit(size, ttl, on_disk)
  /\ HistoryInit
  /\ UserAgentRotatorInit(<< >>)
  /\ ProxyRotatorInit(<< >>)
  /\ ClientInit("sync", 0, 1, TRUE)
  /\ BatchInit(1)

\* The urls are interchangeable, so the callers use them in the order of
\* UrlOrder: a url is first stored only after the ones before it.
FreshUrlsInOrder(u) ==
  \A i \in 2..Len(UrlOrder) : UrlOrder[i] = u => UrlOrder[i - 1] \in stored

NextCache ==
  \/ (now < CacheMaxTime /\ Tick)
  \/ \E u \in Urls : Get(u)
  \/ \E u \in Urls, st \in CacheStatuses, ttl \in TtlArgs :
        /\ sets < MaxSets
        /\ FreshUrlsInOrder(u)
        /\ Set(u, st, ttl, "ok")
  \/ \E u \in Urls : Delete(u)
  \/ Clear

SpecCache == InitCache /\ [][NextCache]_vars

\* ----------------------- specification: a ResponseCache with entries deleted
\* A cache with or without the disk tier whose callers set, get and delete.
InitDelete ==
  /\ now = 0
  /\ RateLimiterInit(1)
  /\ \E size \in 1..MaxSize, ttl \in DefaultTtls, on_disk \in BOOLEAN :
        ResponseCacheInit(size, ttl, on_disk)
  /\ HistoryInit
  /\ UserAgentRotatorInit(<< >>)
  /\ ProxyRotatorInit(<< >>)
  /\ ClientInit("sync", 0, 1, TRUE)
  /\ BatchInit(1)

NextDelete ==
  \/ (now < DeleteMaxTime /\ Tick)
  \/ \E u \in Urls : Get(u)
  \/ \E u \in Urls, st \in CacheStatuses, ttl \in TtlArgs :
        /\ sets < MaxDeleteSets
        /\ FreshUrlsInOrder(u)
        /\ Set(u, st, ttl, "ok")
  \/ \E u \in Urls : Delete(u)

SpecDelete == InitDelete /\ [][NextDelete]_vars

\* ------------------ specification: a ResponseCache shared by worker threads
\* Worker threads set and delete the entries of two urls in a cache with
\* the disk tier on that is large enough to evict nothing, and read them
\* back.  Another thread can run between the locked block of set or delete
\* and its file operation.
TierUrls == {"a", "b"}

InitTiers ==
  /\ now = 0
  /\ RateLimiterInit(1)
  /\ \E ttl \in DefaultTtls : ResponseCacheInit(Cardinality(Urls), ttl, TRUE)
  /\ HistoryInit
  /\ UserAgentRotatorInit(<< >>)
  /\ ProxyRotatorInit(<< >>)
  /\ ClientInit("sync", 0, 1, TRUE)
  /\ BatchInit(1)

NextTiers ==
  \/ \E t \in Workers, u \in TierUrls, st \in Statuses :
        sets < MaxTierSets /\ SetBegin(t, u, st)
  \/ \E t \in Workers : SetEnd(t)
  \/ \E t \in Workers, u \in TierUrls : DeleteBegin(t, u)
  \/ \E t \in Workers : DeleteEnd(t)
  \/ \E u \in TierUrls : Get(u)

SpecTiers == InitTiers /\ [][NextTiers]_vars

\* ------------------- specification: a ResponseCache whose disk writes fail
\* A cache with the disk tier, whose file writes succeed or fail in either
\* way, holding responses of any status.
InitDisk ==
  /\ now = 0
  /\ RateLimiterInit(1)
  /\ \E size \in 1..MaxSize, ttl \in DefaultTtls : ResponseCacheInit(size, ttl, TRUE)
  /\ HistoryInit
  /\ UserAgentRotatorInit(<< >>)
  /\ ProxyRotatorInit(<< >>)
  /\ ClientInit("sync", 0, 1, TRUE)
  /\ BatchInit(1)

NextDisk ==
  \/ (now < DiskMaxTime /\ Tick)
  \/ \E u \in Urls : Get(u)
  \/ \E u \in Urls, st \in Statuses, ttl \in TtlArgs, outcome \in DiskOutcomes :
        /\ sets < MaxDiskSets
        /\ FreshUrlsInOrder(u)
        /\ Set(u, st, ttl, outcome)

SpecDisk == InitDisk /\ [][NextDisk]_vars

\* -------------------------------------- specification: a ProxyRotator alone
\* The proxy lists a rotator can be built from: up to MaxProxies entries,
\* repetitions included.
ProxyLists == UNION {[1..n -> Proxies] : n \in 0..MaxProxies}

InitRot ==
  /\ now = 0
  /\ RateLimiterInit(1)
  /\ ResponseCacheInit(1, 1, FALSE)
  /\ HistoryInit
  /\ UserAgentRotatorInit(<< >>)
  /\ \E ps \in ProxyLists : ProxyRotatorInit(ps)
  /\ ClientInit("sync", 0, 1, TRUE)
  /\ BatchInit(1)

NextRot ==
  \/ GetNext
  \/ \E p \in Proxies : MarkFailed(p)
  \/ ResetFailed

SpecRot == InitRot /\ [][NextRot]_vars

\* ------------------------------------------- specification: one executor
\* A client of either kind over a limiter with one token per second, a cache
\* without durable tier and a rotator over ClientProxies; requests are issued
\* one after the other.
InitClient ==
  /\ now = 0
  /\ RateLimiterInit(1)
  /\ \E size \in 1..MaxSize, ttl \in DefaultTtls : ResponseCacheInit(size, ttl, FALSE)
  /\ HistoryInit
  /\ UserAgentRotatorInit(<< >>)
  /\ \E ps \in ClientProxyLists : ProxyRotatorInit(ps)
  /\ \E kind \in {"sync", "async"}, retries \in RetryLimits, ua_rotation \in BOOLEAN :
        ClientInit(kind, retries, 1, ua_rotation)
  /\ BatchInit(1)

NextClient ==
  \/ (now < ClientMaxTime /\ Tick)
  \/ \E method \in Methods, url \in ClientUrls, use_cache \in BOOLEAN,
        headers \in ClientHeaders, k \in 0..MaxFailures :
        requests < MaxRequests /\ Request(method, url, use_cache, headers, k)
  \/ MakeRequest
  \/ RateLimited
  \/ \E status \in Statuses : TransportSucceeds(status)
  \/ \E e \in TransportErrors : TransportFails(e)
  \/ BackoffDone

Spec == InitClient /\ [][NextClient]_vars

\* ------------------------------------ specification: one batch_requests
\* One batch with any concurrency up to MaxConcurrency and the tasks of
\* BatchTasks, which call limited_request and finish in any order.
InitBatch ==
  /\ now = 0
  /\ RateLimiterInit(1)
  /\ ResponseCacheInit(1, 1, FALSE)
  /\ HistoryInit
  /\ UserAgentRotatorInit(<< >>)
  /\ ProxyRotatorInit(<< >>)
  /\ ClientInit("async", 0, 1, TRUE)
  /\ \E n \in 0..MaxConcurrency : BatchInit(n)

NextBatch ==
  \/ \E t \in BatchTasks : limited_request(t)
  \/ \E t \in BatchTasks : PermitGranted(t)
  \/ \E t \in BatchTasks, how \in {"returned", "raised"} : RequestEnds(t, how)

SpecBatch == InitBatch /\ [][NextBatch]_vars

\* ------------------------ specification: tasks cancelled in the async client
\* An AsyncHTTPClient (limiter caller "t1") and another task calling
\* acquire_async(1) on the same limiter ("t2"); either task can be cancelled
\* wherever it is suspended.  A task cancelled inside acquire_async does not
\* call the limiter again.
InitCancel ==
  /\ now = 0
  /\ RateLimiterInit(1)
  /\ \E ttl \in DefaultTtls : ResponseCacheInit(1, ttl, FALSE)
  /\ HistoryInit
  /\ UserAgentRotatorInit(<< >>)
  /\ ProxyRotatorInit(<< >>)
  /\ ClientInit("async", 1, 1, TRUE)
  /\ BatchInit(1)

NextCancel ==
  \/ (now < CancelMaxTime /\ Tick)
  \/ \E use_cache \in BOOLEAN, k \in 0..1 :
        /\ requests < MaxRequests
        /\ rl_pc["t1"] = "idle"
        /\ Request("GET", "a", use_cache, NoHeaders, k)
  \/ MakeRequest
  \/ PermitObtained
  \/ RateLimited
  \/ TransportSucceeds(200)
  \/ \E e \in TransportErrors : TransportFails(e)
  \/ BackoffDone
  \/ CancelRequest
  \/ (Len(request_times) < MaxAdmissions /\ AcquireAsync("t2", 1))
  \/ Granted("t2")
  \/ Woken("t2")
  \/ CancelAcquire("t2")

SpecCancel == InitCancel /\ [][NextCancel]_vars

\* ------------------------------------ specification: a request that retries
\* One client of either kind, with or without proxies, whose requests go to
\* the transport (use_cache = False) and fail up to MaxRetries + 1 times.
InitRetry ==
  /\ now = 0
  /\ RateLimiterInit(1)
  /\ ResponseCacheInit(1, 1, FALSE)
  /\ HistoryInit
  /\ UserAgentRotatorInit(<< >>)
  /\ \E ps \in RetryProxyLists : ProxyRotatorInit(ps)
  /\ \E kind \in {"sync", "async"}, retries \in 0..MaxRetries, delay \in RetryDelays :
        ClientInit(kind, retries, delay, TRUE)
  /\ BatchInit(1)

NextRetry ==
  \/ (now < RetryMaxTime /\ Tick)
  \/ \E k \in 0..(MaxRetries + 1) :
        requests < MaxRequests /\ Request("GET", "a", FALSE, NoHeaders, k)
  \/ MakeRequest
  \/ RateLimited
  \/ TransportSucceeds(200)
  \/ \E e \in {"Timeout", "ConnectionError"} : TransportFails(e)
  \/ BackoffDone

SpecRetry == InitRetry /\ [][NextRetry]_vars

\* ----------------------------- specification: requests with headers given
\* One client of either kind, with or without user agent rotation, whose
\* callers pass headers of their own, the identity header among them.
InitHeaders ==
  /\ now = 0
  /\ RateLimiterInit(1)
  /\ \E ttl \in DefaultTtls : ResponseCacheInit(1, ttl, FALSE)
  /\ HistoryInit
  /\ UserAgentRotatorInit(<< >>)
  /\ ProxyRotatorInit(<< >>)
  /\ \E kind \in {"sync", "async"}, ua_rotation \in BOOLEAN :
        ClientInit(kind, 0, 1, ua_rotation)
  /\ BatchInit(1)

NextHeaders ==
  \/ (now < HeadersMaxTime /\ Tick)
  \/ \E method \in Methods, use_cache \in BOOLEAN, headers \in AnyHeaders :
        requests < MaxRequests /\ Request(method, "a", use_cache, headers, 0)
  \/ MakeRequest
  \/ RateLimited
  \/ \E status \in Statuses : TransportSucceeds(status)

SpecHeaders == InitHeaders /\ [][NextHeaders]_vars

\* ------------------------------ specification: requests with params given
\* One client of either kind whose callers make GET requests of one url
\* with params of their own, through the cache.
InitParams ==
  /\ now = 0
  /\ RateLimiterInit(1)
  /\ \E size \in 1..MaxSize, ttl \in DefaultTtls : ResponseCacheInit(size, ttl, FALSE)
  /\ HistoryInit
  /\ UserAgentRotatorInit(<< >>)
  /\ ProxyRotatorInit(<< >>)
  /\ \E kind \in {"sync", "async"} : ClientInit(kind, 0, 1, FALSE)
  /\ BatchInit(1)

NextParams ==
  \/ (now < ParamsMaxTime /\ Tick)
  \/ \E params \in ParamLists, use_cache \in BOOLEAN :
        /\ requests < MaxRequests
        /\ RequestWith("GET", "a", use_cache, NoHeaders, params, NoTimeout, 0)
  \/ MakeRequest
  \/ RateLimited
  \/ \E status \in Statuses : TransportSucceeds(status)

SpecParams == InitParams /\ [][NextParams]_vars

\* ------------------------------ specification: requests with a timeout given
\* One client of either kind whose callers make requests with or without a
\* timeout of their own, over a transport that may time out.
Timeouts == {NoTimeout, 5}

InitTimeout ==
  /\ now = 0
  /\ RateLimiterInit(1)
  /\ ResponseCacheInit(1, 1, FALSE)
  /\ HistoryInit
  /\ UserAgentRotatorInit(<< >>)
  /\ ProxyRotatorInit(<< >>)
  /\ \E kind \in {"sync", "async"}, retries \in RetryLimits, delay \in RetryDelays :
        ClientInit(kind, retries, delay, FALSE)
  /\ BatchInit(1)

NextTimeout ==
  \/ (now < TimeoutMaxTime /\ Tick)
  \/ \E timeout \in Timeouts, k \in 0..MaxTimeouts :
        /\ requests < MaxRequests
        /\ RequestWith("GET", "a", FALSE, NoHeaders, << >>, timeout, k)
  \/ MakeRequest
  \/ RateLimited
  \/ \E status \in Statuses : TransportSucceeds(status)
  \/ TransportFails("Timeout")
  \/ BackoffDone

SpecTimeout == InitTimeout /\ [][NextTimeout]_vars

\* ------------------------------------ specification: one scan_batch call
\* A started engine runs one scan_batch of up to MaxJobs jobs with
\* max_concurrent up to MaxConcurrent; the executor has a thread for every
\* submitted job.
InitScan ==
  /\ now = 0
  /\ RateLimiterInit(1)
  /\ ResponseCacheInit(1, 1, FALSE)
  /\ HistoryInit
  /\ UserAgentRotatorInit(<< >>)
  /\ ProxyRotatorInit(<< >>)
  /\ ClientInit("sync", 0, 1, TRUE)
  /\ BatchInit(1)

NextScan ==
  \/ \E n \in 0..MaxJobs, m \in 1..MaxConcurrent : ScanBatch(n, m)
  \/ \E j \in 1..MaxJobs : ScanSingleReturns(j)
  \/ \E j \in 1..MaxJobs : AsCompletedYields(j)
  \/ ScanBatchReturns

SpecScan == InitScan /\ [][NextScan]_vars

\* ------------------------- specification: a ProxyRotator shared by threads
\* Worker threads of one client call get_next, mark_failed and reset_failed
\* on a rotator built from distinct proxies.  Another thread can run between
\* the read of the list and the write of the cursor in get_next; mark_failed
\* and reset_failed are taken as single steps.
DistinctProxyLists ==
  {ps \in ProxyLists : \A i, j \in 1..Len(ps) : i # j => ps[i] # ps[j]}

InitThreads ==
  /\ now = 0
  /\ RateLimiterInit(1)
  /\ ResponseCacheInit(1, 1, FALSE)
  /\ HistoryInit
  /\ UserAgentRotatorInit(<< >>)
  /\ \E ps \in DistinctProxyLists : ProxyRotatorInit(ps)
  /\ ClientInit("sync", 0, 1, TRUE)
  /\ BatchInit(1)

NextThreads ==
  \/ \E t \in Workers : GetNextBegin(t)
  \/ \E t \in Workers : GetNextEnd(t)
  \/ \E p \in Proxies : MarkFailed(p)
  \/ ResetFailed

SpecThreads == InitThreads /\ [][NextThreads]_vars

\* ----------------- specification: a ProxyRotator built from distinct proxies
\* The rotator alone, as in SpecRot, built from lists without repetitions.
InitDistinct ==
  /\ now = 0
  /\ RateLimiterInit(1)
  /\ ResponseCacheInit(1, 1, FALSE)
  /\ HistoryInit
  /\ UserAgentRotatorInit(<< >>)
  /\ \E ps \in DistinctProxyLists : ProxyRotatorInit(ps)
  /\ ClientInit("sync", 0, 1, TRUE)
  /\ BatchInit(1)

NextDistinct ==
  \/ GetNext
  \/ \E p \in Proxies : MarkFailed(p)
  \/ ResetFailed

SpecDistinct == InitDistinct /\ [][NextDistinct]_vars

\* ---------------------------------- specification: a UserAgentRotator alone
\* The pools a rotator can be built from: none given (the defaults) or up to
\* MaxAgents identities, repetitions included.
UserAgentPools == UNION {[1..n -> Agents] : n \in 0..MaxAgents}

InitUA ==
  /\ now = 0
  /\ RateLimiterInit(1)
  /\ ResponseCacheInit(1, 1, FALSE)
  /\ HistoryInit
  /\ \E pool \in UserAgentPools : UserAgentRotatorInit(pool)
  /\ ProxyRotatorInit(<< >>)
  /\ ClientInit("sync", 0, 1, TRUE)
  /\ BatchInit(1)

NextUA == Len(ua_returned) < MaxUaCalls /\ UaGetNext

SpecUA == InitUA /\ [][NextUA]_vars

\* ------------------------ specification: a client used in a with block
\* A client of either kind is built, the block is entered, requests are made
\* in its body one after the other, and the block is left at the end of the
\* body or by an exception.
InitScope ==
  /\ now = 0
  /\ RateLimiterInit(1)
  /\ \E ttl \in DefaultTtls : ResponseCacheInit(1, ttl, FALSE)
  /\ HistoryInit
  /\ UserAgentRotatorInit(<< >>)
  /\ ProxyRotatorInit(<< >>)
  /\ \E kind \in {"sync", "async"} : ClientInit(kind, 1, 1, TRUE)
  /\ BatchInit(1)

NextScope ==
  \/ (now < ScopeMaxTime /\ Tick)
  \/ Enter
  \/ \E exc \in BOOLEAN : Exit(exc)
  \/ \E use_cache \in BOOLEAN, k \in 0..MaxFailures :
        /\ requests < MaxRequests
        /\ scope = "inside"
        /\ Request("GET", "a", use_cache, NoHeaders, k)
  \/ MakeRequest
  \/ RateLimited
  \/ \E status \in Statuses : TransportSucceeds(status)
  \/ \E e \in TransportErrors : TransportFails(e)
  \/ BackoffDone

SpecScope == InitScope /\ [][NextScope]_vars

\* ================================================================ claims

\* C1: in every reachable state of a RateLimiter shared by concurrent
\* acquire() and acquire_async() callers, 0 <= tokens <= max_tokens.
C1_TokensInRange == 0 <= tokens /\ tokens <= max_tokens

\* C2: the number of acquire calls admitted within any time interval of
\* length d is at most max_tokens + requests_per_second * d (callers woken
\* after a wait never double-spend the refilled tokens).  request_times
\* holds the admission times in order; the i-th to the j-th admission lie in
\* an interval of length request_times[j] - request_times[i], during which
\* (in token units) request_times[j] - request_times[i] is refilled.
C2_AdmittedRateBounded ==
  \A i \in 1..Len(request_times) : \A j \in i..Len(request_times) :
    Units(j - i + 1) <= max_tokens + (request_times[j] - request_times[i])

\* C3: an acquire(cost) or acquire_async(cost) issued when the refilled
\* token count is >= cost returns without sleeping or suspending: a call
\* that leaves its caller asleep or suspended found fewer tokens than cost.
C3_NoBlockWhenTokensSuffice ==
  [][\A c \in Callers :
       (rl_pc[c] = "idle" /\ rl_pc'[c] \in {"sleep", "sem_wait"})
          => update_tokens < Units(rl_cost'[c])]_vars

\* C4: for a fresh RateLimiter with rate r, n sequential acquire(1) calls
\* with n > r take at least (n - r) / r seconds in total, which is
\* (n - r) * TicksPerToken ticks.
C4_SequentialTakesTime ==
  (rl_pc["t1"] = "idle" /\ Len(request_times) > requests_per_second)
     => now - started >= (Len(request_times) - requests_per_second) * TicksPerToken

\* C4 witness: ten sequential calls at rate 5 have returned.
C4_Witness ==
  /\ requests_per_second = 5
  /\ rl_pc["t1"] = "idle"
  /\ Len(request_times) = 10

\* C5: get never returns a response whose original expiry (time of its set
\* + the ttl given to set) has passed, whether it comes from the memory tier
\* or was re-loaded from disk.
C5_NoExpiredResponseReturned ==
  [][\A u \in Urls :
       Get(u) =>
         LET r == cache_get(memory_cache, disk, generate_key(u, "GET", << >>), now).response
         IN  r # NoResponse => now <= r.set_expiry]_vars

\* The keys the set that has just completed removed from the memory tier.
Removed == KeysOf(written) \ KeysOf(memory_cache)

LastAccessed(k) == EntryOf(written, k).last_accessed

\* C7 (as claimed): when a set makes the memory tier exceed max_size, the
\* entries removed are exactly those with the smallest last_accessed, as
\* many as the tier is over max_size.
C7_RemovedAreLeastRecentlyAccessed ==
  Len(written) > max_size =>
    /\ Cardinality(Removed) = Len(written) - max_size
    /\ \A g \in Removed : \A k \in KeysOf(memory_cache) :
          LastAccessed(g) <= LastAccessed(k)

\* C7 (amended): when a set makes the memory tier exceed max_size, the
\* expired entries are removed, and of the unexpired ones those with the
\* smallest last_accessed, as many as they are over max_size; the other
\* entries stay as they were.
C7_RemovedAreExpiredOrLeastRecentlyAccessed ==
  LET expired == expired_keys(written, now)
      live == KeysOf(written) \ expired
      lru == Removed \ expired
  IN  Len(written) > max_size =>
        /\ expired \subseteq Removed
        /\ Cardinality(lru) = Max(0, Cardinality(live) - max_size)
        /\ \A g \in lru : \A k \in KeysOf(memory_cache) :
              LastAccessed(g) <= LastAccessed(k)
        /\ \A k \in KeysOf(memory_cache) :
              EntryOf(memory_cache, k) = EntryOf(written, k)

\* C7 witness: with max_size = 2 a third key c was stored, and b was removed
\* for it although a had been stored before b (a was read since).
C7_Witness ==
  /\ max_size = 2
  /\ Len(written) = 3
  /\ KeysOf(written) \ KeysOf(memory_cache) = {generate_key("b", "GET", << >>)}
  /\ written[1].key = generate_key("a", "GET", << >>)
  /\ written[1].last_accessed > written[2].last_accessed

\* C6: a response that request() returns through the cache short-circuit has
\* from_cache = TRUE, and one it returns from a transport call has
\* from_cache = FALSE.
C6_FromCacheTellsProvenance ==
  rq_result.kind = "response" => rq_result.response.from_cache = rq_result.hit

\* C8: a request(GET, use_cache = TRUE) that hits the cache leaves the
\* limiter's tokens and admission window, the identity cursor, the proxy
\* rotator and the number of transport calls unchanged.
C8_CacheHitTouchesNothingElse ==
  [][(requests' = requests + 1 /\ rq_result'.hit)
       => UNCHANGED <<tokens, last_update, request_times, ua_index,
                      working_proxies, failed_proxies, current_index,
                      transport_calls>>]_vars

C8_Witness ==
  /\ rq_result.hit
  /\ requests = 2
  /\ transport_calls = 1
  /\ ua_index = 1
  /\ Len(request_times) = 1
  /\ proxies # << >>
  /\ current_index = 1

\* C9: with a transport that fails k times with a retryable error and then
\* succeeds, a request() that goes to the transport makes k + 1 transport
\* calls and returns the response when k <= max_retries, and makes
\* max_retries + 1 calls and raises the typed error when k > max_retries.
C9_TransportCallsPerRequest ==
  (rq_result.kind # "none" /\ ~rq_result.hit) =>
     IF rq_result.k <= max_retries
       THEN rq_result.kind = "response" /\ rq_result.calls = rq_result.k + 1
       ELSE /\ rq_result.kind = "error"
            /\ rq_result.error \in {"TimeoutError", "ConnectionError", "NetworkError"}
            /\ rq_result.calls = max_retries + 1

\* C10: after mark_failed(p), no get_next() returns p until reset_failed()
\* is called.
C10_FailedProxyNotReturned == rot_result \notin marked

\* C11: whatever get_next, mark_failed and reset_failed calls came before,
\* get_next() returns a proxy of the working list when that list is not
\* empty and None when it is empty; it never raises.
C11_GetNextReturnsWorkingProxy ==
  rot_result # NoCall =>
    IF working_proxies = << >>
      THEN rot_result = NoProxy
      ELSE InList(rot_result, working_proxies)

\* C12: with batch_requests(concurrency = N), never more than N requests
\* issued through limited_request are in flight at once.
C12_InFlightAtMostConcurrency == Cardinality(InFlight) <= concurrency

C12_Witness ==
  /\ concurrency = 2
  /\ Cardinality(InFlight) = 2
  /\ \E t \in BatchTasks : batch_pc[t] = "waiting"
  /\ \E t \in BatchTasks : batch_pc[t] \in {"returned", "raised"}

\* C13: a request() that does not return a response raises an error of the
\* typed taxonomy (NetworkError, ConnectionError, TimeoutError); no other
\* failure escapes it.
C13_OnlyTypedErrorsEscape ==
  rq_result.kind = "error" =>
    rq_result.error \in {"NetworkError", "ConnectionError", "TimeoutError"}

\* C14: when every one of the max_retries + 1 attempts of a request fails,
\* the request raises the typed error of the last attempt's failure, and it
\* raises nothing before the attempts are used up.
C14_RaisesLastAttemptsError ==
  (rq_result.kind # "none" /\ ~rq_result.hit /\ rq_result.k > max_retries) =>
     /\ rq_result.kind = "error"
     /\ rq_result.calls = max_retries + 1
     /\ transport_error \in TransportErrors
     /\ rq_result.error = typed_error(transport_error)

\* C15: a non-retryable failure of the transport (invalid URL, failed TLS
\* verification) ends the request at once with an error: no backoff and no
\* further attempt follows it.
C15_NonRetryablePropagatesAtOnce ==
  transport_error \in {"InvalidURL", "SSLError"} =>
     rq_pc = "idle" /\ rq_result.kind = "error"

\* C16: a set whose disk write fails still completes with the entry in the
\* memory tier, so that a get of that key that follows returns the response.
C16_SetSurvivesWriteFailure ==
  [][\A u \in Urls, st \in Statuses, ttl \in TtlArgs,
        outcome \in DiskOutcomes \ {"ok"} :
       Set(u, st, ttl, outcome) =>
         LET k == generate_key(u, "GET", << >>)
         IN  /\ k \in KeysOf(memory_cache')
             /\ EntryOf(memory_cache', k).response.status_code = st
             /\ cache_get(memory_cache', disk', k, now).response
                  = EntryOf(memory_cache', k).response]_vars

\* C17: a get that finds the key absent from memory and its file corrupted
\* or expired is a miss and leaves no file; when the file is valid, get
\* returns its response with the entry in the memory tier.
C17_GetFromDisk ==
  [][\A u \in Urls :
       Get(u) =>
         LET k == generate_key(u, "GET", << >>)
             f == disk[k]
             g == cache_get(memory_cache, disk, k, now)
         IN  k \notin KeysOf(memory_cache) =>
               /\ (f.kind = "corrupt" \/ (f.kind = "entry" /\ is_expired(f, now)))
                    => (g.response = NoResponse /\ disk'[k] = NoFile)
               /\ (f.kind = "entry" /\ ~is_expired(f, now))
                    => (g.response = f.response /\ k \in KeysOf(memory_cache'))]_vars

\* C18: no RateLimiter whose requests_per_second is not positive comes to
\* run acquire: such a rate is refused when the limiter is built.
C18_NoAcquireOnNonPositiveRate == started >= 0 => requests_per_second > 0

\* The permits of the limiter's semaphore are all accounted for: the free
\* ones and the ones held by the callers asleep inside acquire_async.
PermitsAccounted ==
  Permits + Cardinality({c \in Callers : rl_pc[c] = "sleep" /\ rl_mode[c] = "async"})
    = requests_per_second

\* C19: an acquire_async cancelled where it is suspended has deducted no
\* token and recorded no admission, and its permit is free again; a request
\* cancelled in its transport call leaves the cache without an entry for it.
C19_CancelLeavesNoTrace ==
  [][/\ \A c \in Callers :
          (rl_pc[c] = "idle" /\ rl_pc'[c] \in {"sem_wait", "sleep"})
            => (tokens' >= tokens /\ request_times' = request_times)
     /\ \A c \in Callers :
          (rl_pc[c] = "sem_wait" /\ rl_pc'[c] = "sleep")
            => (tokens' >= tokens /\ request_times' = request_times)
     /\ \A c \in Callers :
          (rl_pc[c] # "cancelled" /\ rl_pc'[c] = "cancelled")
            => /\ tokens' = tokens
               /\ request_times' = request_times
               /\ PermitsAccounted'
     /\ (rq_pc = "transport" /\ rq_pc' = "idle" /\ rq_result'.kind = "cancelled")
            => /\ UNCHANGED <<memory_cache, disk>>
               /\ (rq.use_cache /\ rq.method = "GET")
                    => cache_get(memory_cache', disk', generate_key(rq.url, "GET", << >>),
                                 now).response = NoResponse]_vars

C19_Witness ==
  /\ rl_pc["t2"] = "cancelled"
  /\ rl_pc["t1"] = "idle"
  /\ Permits = requests_per_second
  /\ rq_result.kind = "cancelled"
  /\ rq_result.calls = 1
  /\ Len(request_times) = 2
  /\ memory_cache = << >>

\* C20: when the with / async with block around a client has been left, at
\* the end of its body or by an exception, close() has run and the client
\* holds no open session.
C20_ScopeExitClosesSession ==
  scope \in {"exited", "exited_exc"} => (closes = 1 /\ session # "open")

C20_Witness ==
  /\ scope = "exited_exc"
  /\ rq_result.kind = "error"
  /\ transport_calls = 2
  /\ session = "closed"
  /\ client_kind = "async"

\* Number of occurrences of x in the sequence q.
Count(x, q) == Cardinality({i \in 1..Len(q) : q[i] = x})

\* C21: the get_next calls of a UserAgentRotator go round the pool: call
\* number i (from 0) returns user_agents[i mod n], so any n calls in a row
\* return every identity as often as it is in the pool, once when the
\* identities are distinct.
C21_GetNextIsRoundRobin ==
  LET n == Len(user_agents)
  IN  /\ \A i \in 1..Len(ua_returned) :
            ua_returned[i] = user_agents[((i - 1) % n) + 1]
      /\ \A s \in 1..Len(ua_returned) :
            s + n - 1 <= Len(ua_returned)
              => \A u \in Agents \cup {user_agents[j] : j \in 1..n} :
                    Count(u, SubSeq(ua_returned, s, s + n - 1))
                      = Count(u, user_agents)

C21_Witness ==
  /\ user_agents = <<"ua2", "ua1", "ua3">>
  /\ ua_returned = <<"ua2", "ua1", "ua3", "ua2", "ua1", "ua3", "ua2">>

\* C22: a caller of acquire or acquire_async that is sleeping for refill
\* holds nothing that other callers need in order to enter: not the lock
\* and no permit of the semaphore, so every permit is free while callers
\* sleep.
C22_NothingHeldWhileSleeping ==
  (\E c \in Callers : rl_pc[c] = "sleep") => Permits = requests_per_second

\* C23: in both clients a failure of attempt a with a < max_retries starts
\* a wait of exactly retry_delay * 2^a, before whose end attempt a + 1 does
\* not start; a failure of attempt max_retries makes the request raise in
\* the same step, with no wait.
C23_BackoffIsExponential ==
  [][ /\ (rq_pc = "transport" /\ transport_error' # NoError) =>
            IF rq.attempt < max_retries
              THEN /\ rq_pc' = "backoff"
                   /\ rq_wake' = now + retry_delay * 2^(rq.attempt)
              ELSE /\ rq_pc' = "idle"
                   /\ rq_result'.kind = "error"
                   /\ now' = now
      /\ (rq_pc = "backoff" /\ rq_pc' # "backoff") => now >= rq_wake
    ]_vars

C23_Witness ==
  /\ max_retries = 2
  /\ retry_delay = 2
  /\ rq_result.kind = "error"
  /\ rq_result.calls = 3
  /\ now = 6

\* C24: when an attempt that went through a proxy has failed with a
\* connection error, the proxy is in the failed list while the request
\* backs off, and the attempt that follows goes through a proxy of the
\* working list, or through none when that list is empty: never through a
\* proxy that has been marked failed.
C24_FailedProxyNotReused ==
  /\ (rq_pc = "backoff" /\ transport_error \in {"ConnectionError", "SSLError"}
        /\ rq.proxy # NoProxy)
       => InList(rq.proxy, failed_proxies)
  /\ (rq_pc \in {"acquire", "rl_wait", "transport"} /\ rq.attempt > 0
        /\ rq.last_exception = "ConnectionError")
       => IF rq.proxy = NoProxy
            THEN working_proxies = << >>
            ELSE /\ InList(rq.proxy, working_proxies)
                 /\ rq.proxy \notin marked

\* C25: every attempt of a request that goes to the transport makes one
\* acquire of one token, which has returned when the transport call starts:
\* the admissions of the limiter are as many as the transport calls started,
\* and each deducts one token after the refill.
C25_OneAcquirePerAttempt ==
  /\ [](/\ Len(request_times)
             = transport_calls + (IF rq_pc = "transport" THEN 1 ELSE 0)
        /\ rq_pc = "rl_wait" => rl_cost["t1"] = 1)
  /\ [][ /\ Len(request_times') # Len(request_times) =>
              /\ rq_pc \in {"acquire", "rl_wait"}
              /\ rq_pc' = "transport"
              /\ Len(request_times') = Len(request_times) + 1
              /\ tokens' = Min(max_tokens, tokens + (now - last_update)) - Units(1)
         /\ transport_calls' # transport_calls => rq_pc = "transport"
       ]_vars

C25_Witness ==
  /\ requests = 1
  /\ rq_result.kind = "response"
  /\ rq_result.calls = 3
  /\ Len(request_times) = 3
  /\ transport_calls = 3
  /\ client_kind = "async"
  /\ rq_pc = "idle"

\* C26: when request() returns the response of a successful transport
\* call, whatever its status, the cache holds that response under the key
\* of the request if the method is GET and use_cache is true, and is left
\* as it was otherwise.
C26_TransportResponseCachedIffGetAndUseCache ==
  [][ (rq_pc = "transport" /\ rq_pc' = "idle" /\ rq_result'.kind = "response") =>
        LET key == generate_key(rq.url, "GET", << >>)
        IN  IF rq.method = "GET" /\ rq.use_cache
              THEN /\ key \in KeysOf(memory_cache')
                   /\ EntryOf(memory_cache', key).response = rq_result'.response
              ELSE memory_cache' = memory_cache /\ disk' = disk
    ]_vars

\* C27: a request whose caller gave an identity header is sent with that
\* value as its only identity and leaves the cursor of the user agent
\* rotator where it was; the client adds an identity of its own only when
\* the caller gave none and rotation is enabled.
C27_ExplicitIdentityIsKept ==
  [][ (rq_pc = "idle" /\ rq_pc' # "idle") =>
        LET explicit == {h \in rq'.given : IsUserAgentHeader(h[1])}
        IN  /\ explicit # {} =>
                 /\ SentIdentities(rq'.headers) = {h[2] : h \in explicit}
                 /\ ua_index' = ua_index
                 /\ ua_returned' = ua_returned
            /\ rq'.headers # rq'.given =>
                 explicit = {} /\ user_agent_rotation
    ]_vars

\* C28: in every state of a ProxyRotator and for every proxy e, a second
\* mark_failed(e) right after the first changes neither list (the cursor is
\* not touched by mark_failed, so later get_next calls behave the same), and
\* mark_failed of a proxy that is not in the working list changes nothing.
C28_MarkFailedIsIdempotent ==
  \A e \in Proxies :
    LET once == proxy_mark_failed(working_proxies, failed_proxies, e)
        twice == proxy_mark_failed(once.working, once.failed, e)
    IN  /\ twice = once
        /\ ~InList(e, working_proxies) =>
              once = [working |-> working_proxies, failed |-> failed_proxies]

\* The proxies that the next n get_next calls return, from working list w
\* and cursor i.
RECURSIVE NextProxies(_, _, _)
NextProxies(w, i, n) ==
  IF n = 0 THEN {}
  ELSE LET g == proxy_get_next(w, i)
       IN  {g.proxy} \cup NextProxies(w, g.index, n - 1)

\* C29: a reset_failed() leaves the failed list empty and the working list
\* with every configured proxy exactly once, and the get_next calls that
\* follow return every configured proxy again.
C29_ResetRestoresEveryProxy ==
  [][ (marked' = {} /\ rot_result' = NoCall) =>
        /\ failed_proxies' = << >>
        /\ \A i \in 1..Len(proxies) :
              /\ Count(proxies[i], working_proxies') = 1
              /\ proxies[i] \in NextProxies(working_proxies', current_index',
                                            Len(working_proxies'))
    ]_vars

\* C30: the memory tier never holds more than max_size entries, after a
\* set, a get (one that promotes an entry from the disk tier included), a
\* delete or a clear.
C30_MemoryTierBounded == Len(memory_cache) <= max_size

\* The items of a params dict, whatever their order.
ItemsOf(params) == {params[i] : i \in 1..Len(params)}

\* C31: the cache entry of a request is keyed by its method, url and sorted
\* params: a GET that request() serves from the cache gets a response that
\* was stored for the same url and the same params, and the order of the
\* params does not change the key.
C31_CacheKeyedByMethodUrlParams ==
  [][ /\ \A params \in ParamLists :
            (/\ RequestWith("GET", "a", TRUE, NoHeaders, params, NoTimeout, 0)
             /\ rq_result'.kind = "response" /\ rq_result'.hit)
              => /\ rq_result'.response.url[1] = "a"
                 /\ ItemsOf(rq_result'.response.url[2]) = ItemsOf(params)
      /\ \A p1, p2 \in ParamLists :
            ItemsOf(p1) = ItemsOf(p2)
              <=> generate_key("a", "GET", p1) = generate_key("a", "GET", p2)
    ]_vars

\* C32: the two clients are one state machine: in every state that a
\* request of either client reaches, the step the blocking client takes and
\* the step the async client takes lead to the same attempt, so that from
\* equal states and with equal transport outcomes both make the same calls
\* through the same proxies and end alike.  The clients differ in the proxy
\* they take after a backoff, which is compared here.
C32_ClientsTakeTheSameSteps ==
  (rq_pc = "backoff" /\ proxy_rotator) =>
     LET g == proxy_get_next(working_proxies, current_index)
     IN  retry_proxy("sync", rq.proxy, g.proxy)
           = retry_proxy("async", rq.proxy, g.proxy)

\* C33: with worker threads calling a rotator at the same time, no
\* get_next fails, none returns a proxy that is in the failed list when it
\* returns, and the cursor stays within the working list.
C33_RotatorSafeUnderThreads ==
  /\ rot_result \notin {IndexError, ZeroDivisionError}
  /\ rot_result \notin {NoCall, NoProxy} => ~InList(rot_result, failed_proxies)
  /\ working_proxies # << >> => current_index < Len(working_proxies)

\* C34: in both clients every attempt hands the transport the timeout the
\* caller gave, or the configured one when the caller gave none, and a
\* TimeoutError carries the timeout of the attempt that timed out.
C34_AttemptUsesCallersTimeout ==
  rq # NoRequest =>
     /\ rq.timeout = IF rq.timeout_given # NoTimeout THEN rq.timeout_given
                     ELSE ConfiguredTimeout
     /\ rq.timeout_value # NoTimeout => rq.timeout_value = rq.timeout

\* C35: get_current_rate() returns the number of admissions of the trailing
\* window over window_size, drops exactly the timestamps older than the
\* window, and leaves tokens and last_update alone; an acquire that returns
\* appends one timestamp, and nothing else appends any.
InWindow(times) == SelectSeq(times, LAMBDA t : t >= now - window_size)

AcquireReturns ==
  \/ \E c \in Callers : (Acquire(c, 1) \/ AcquireAsync(c, 1) \/ Granted(c))
                          /\ rl_pc'[c] = "idle"
  \/ \E c \in Callers : Woken(c)

C35_CurrentRateCountsTheWindow ==
  [][ /\ GetCurrentRate =>
            /\ current_rate' = [count |-> Len(InWindow(request_times)),
                                window |-> window_size]
            /\ request_times' = InWindow(request_times)
            /\ UNCHANGED <<tokens, last_update>>
      /\ AcquireReturns => request_times' = Append(request_times, now)
      /\ (~AcquireReturns /\ ~GetCurrentRate) => request_times' = request_times
    ]_vars

\* A get_current_rate() has dropped a timestamp and counted another.
C35_Witness ==
  /\ current_rate.window > 0
  /\ current_rate.count > 0
  /\ Len(request_times) = current_rate.count
  /\ request_times[1] > 0
  /\ started = 0

\* C36: delete(url) removes the entry of that key from the memory tier and
\* from the disk tier and changes no entry of another key; a get of a key
\* that misses keeps missing until that key is set again, so after a delete
\* the key misses until it is set.
Misses(mem, dsk, url, t) ==
  cache_get(mem, dsk, generate_key(url, "GET", << >>), t).response = NoResponse

C36_DeleteRemovesExactlyTheKey ==
  [][ \A u \in Urls :
        LET k == generate_key(u, "GET", << >>) IN
        /\ Delete(u) =>
              /\ Misses(memory_cache', disk', u, now')
              /\ memory_cache' = SelectSeq(memory_cache, LAMBDA e : e.key # k)
              /\ \A k2 \in CacheKeys \ {k} : disk'[k2] = disk[k2]
        /\ (/\ Misses(memory_cache, disk, u, now)
            /\ ~(\E st \in CacheStatuses, ttl \in TtlArgs : Set(u, st, ttl, "ok")))
              => Misses(memory_cache', disk', u, now')
    ]_vars

\* b was stored and then deleted from both tiers while a stayed cached.
C36_Witness ==
  /\ disk_cache
  /\ now = 0
  /\ sets = 2
  /\ stored = {"a", "b"}
  /\ disk[generate_key("a", "GET", << >>)] # NoFile
  /\ disk[generate_key("b", "GET", << >>)] = NoFile
  /\ generate_key("a", "GET", << >>) \in KeysOf(memory_cache)
  /\ generate_key("b", "GET", << >>) \notin KeysOf(memory_cache)

\* C37: on a limiter of any positive rate, fractional ones included, a
\* caller of acquire or acquire_async that has to wait is eventually let
\* through, given that time advances and the scheduler is fair.
C37_EveryAcquireReturns ==
  \A c \in Callers : (rl_pc[c] \in {"sleep", "sem_wait"}) ~> (rl_pc[c] = "idle")

\* C38: with the disk tier on, once every set and delete of the worker
\* threads has returned, the two tiers agree on every key: a key is in the
\* memory tier with a response exactly if its file holds that response, so
\* a deleted key is in neither tier.
C38_TiersAgreeWhenQuiescent ==
  (disk_cache /\ \A t \in Workers : pending[t] = NoOperation) =>
     \A k \in CacheKeys :
        IF k \in KeysOf(memory_cache)
          THEN /\ disk[k].kind = "entry"
               /\ disk[k].response = EntryOf(memory_cache, k).response
          ELSE disk[k] = NoFile

\* C39: in a rotator built from distinct proxies the working list and the
\* failed list partition the configured proxies in every reachable state:
\* no proxy is in both, together they hold exactly the configured ones, and
\* none occurs twice.
ElementsOf(list) == {list[i] : i \in 1..Len(list)}

C39_WorkingAndFailedPartition ==
  /\ ElementsOf(working_proxies) \cap ElementsOf(failed_proxies) = {}
  /\ ElementsOf(working_proxies) \cup ElementsOf(failed_proxies) = ElementsOf(proxies)
  /\ Len(working_proxies) + Len(failed_proxies) = Len(proxies)

\* The first configured proxy was marked failed and restored (it is now last
\* in the working list), another one is failed, and get_next has just
\* returned a proxy.
C39_Witness ==
  /\ Len(proxies) = 3
  /\ Len(failed_proxies) = 1
  /\ working_proxies[Len(working_proxies)] = proxies[1]
  /\ rot_result \in ElementsOf(working_proxies)

\* C40: scan_batch returns only after every job has run, with exactly one
\* result per job, also for more jobs than max_concurrent; and never more
\* than max_concurrent jobs are submitted and unfinished.
C40_ScanBatchRunsEveryJob ==
  /\ scan.pc = "returned" =>
        /\ scan.finished = 1..scan.jobs
        /\ Len(scan.results) = scan.jobs
        /\ {scan.results[i] : i \in 1..Len(scan.results)} = 1..scan.jobs
  /\ Cardinality(scan.submitted \ scan.finished) <= scan.max_concurrent

====
